---- MODULE Spec2Model ----
(***************************************************************************)
(* rewledis: a rewriting connection (LedisConn) over a LedisDB wire, the   *)
(* type-resolution Cache with its Resolver, and the SubPool carved out of  *)
(* the primary pool.  Six specifications share this module:                *)
(*   SpecConn      one LedisConn driven by a single caller                 *)
(*   SpecResolver  concurrent Resolver.ResolveAppend calls over one Cache  *)
(*   SpecCache     SpecResolver with the other callers of the Cache        *)
(*   SpecOpposed   two ResolveAppend calls with the keys in opposite order *)
(*   SpecPool      tasks on the primary pool and on the SubPool            *)
(*   SpecRewrite   one command through Rewriter.Rewrite, its send plan and *)
(*                 the reduction of the replies to it                      *)
(***************************************************************************)
EXTENDS Integers, Sequences, FiniteSets, TLC

VARIABLES
    \* ---- LedisConn (src/ledisconn.go) ----
    conn,       \* l.conn: "open" or "nil"
    lerr,       \* l.err: the stored error, "nil" when unset
    slots,      \* l.slots: FIFO of pending Slots
    wbuf,       \* commands written to the wire's output buffer, not flushed
    owed,       \* commands flushed to the server whose replies are unread
    timed,      \* whether the wire implements redis.ConnWithTimeout
    last,       \* what the last LedisConn method call returned
    nsent,      \* number of rewriteAndSend calls that returned a Slot
    consumed,   \* number of Slots taken off l.slots by Receive/Do
    sendLog,    \* per returned Slot: its reduce function, the commands written
    \* ---- Cache and Resolver (src/unnamed/part_004, src/unnamed/part_002) ----
    entries,    \* c.entries: key -> cacheEntry (present FALSE: no entry stored)
    chans,      \* number of DoneLoading channels made so far
    closed,     \* the channels that have been closed
    backend,    \* the types under which each key exists in the backend
    task,       \* per task: the locals of its ResolveAppend call
    \* ---- primary pool and SubPool (src/args.go, src/subpool.go) ----
    poolMaxActive,  \* MaxActive of the primary pool
    poolWait,       \* Wait of the primary pool
    poolActive,     \* connections of the primary pool that are in use
    subMaxActive,   \* s.MaxActive of the internal SubPool
    subState,       \* s.state
    semCur,         \* permits of s.semaphore that are held
    user,           \* per user of the pools: where it is and what it holds
    \* ---- Rewriter and transformers (src/transformers.go) ----
    rw              \* the command being rewritten, its send plan and its reply

connVars == <<conn, lerr, slots, wbuf, owed, timed, last, nsent, consumed, sendLog>>
resVars == <<entries, chans, closed, backend, task>>

poolVars == <<poolMaxActive, poolWait, poolActive, subMaxActive, subState, semCur, user>>

rwVars == <<rw>>

vars == <<connVars, resVars, poolVars, rwVars>>

\* what the methods of a LedisConn, the steps of the Resolver and the users of
\* the pools leave alone
notConn == <<resVars, poolVars, rwVars>>
notRes == <<connVars, poolVars, rwVars>>
notPool == <<connVars, resVars, rwVars>>
notRewrite == <<connVars, resVars, poolVars>>

(***************************************************************************)
(* Bounds                                                                  *)
(***************************************************************************)
MaxSends == 2
\* keys passed to ResolveAppend by all the calls of SpecResolver together
MaxKeys == 3
\* the largest MaxActive of the primary pool and of the SubPool in SpecPool
MaxPoolActive == 2
MaxSubActive == 1
\* modifiers after SET key value in SpecRewrite
MaxMods == 3
\* keys of one type-specific bulk command in SpecRewrite
MaxBulkKeys == 3

(***************************************************************************)
(* Errors                                                                  *)
(***************************************************************************)
NoErr == "nil"
ErrConnClosed == "ErrConnClosed"
ErrTimeoutNotSupported == "ErrTimeoutNotSupported"
ErrUnknownRedisCommandName == "ErrUnknownRedisCommandName"
ErrNoEmulationPossible == "ErrNoEmulationPossible"
ErrInvalidSyntax == "ErrInvalidSyntax"
ErrInvalidArgumentType == "ErrInvalidArgumentType"
ErrInvalidArgumentCombination == "ErrInvalidArgumentCombination"
ErrSubCommandUnknown == "ErrSubCommandUnknown"
ErrUnexpectedCacheEntryState == "ErrUnexpectedCacheEntryState"
\* ctx.Err() of a cancelled context
ErrCanceled == "context.Canceled"
ErrErrorCacheEntryState == "ErrErrorCacheEntryState"
\* an error of the underlying redigo connection (I/O, timeout, closed)
ErrWire == "ErrWire"
\* redis.Int64 / redis.Bool on a reply of another type
ErrReplyType == "ErrReplyType"

(***************************************************************************)
(* Arguments (src/args/args.go)                                            *)
(***************************************************************************)
\* an int64 as sign and magnitude, the magnitude in seven digits of base 1000,
\* the least significant first; I64(n) for an integer below 10^9 in absolute
\* value
I64(n) ==
    LET m == IF n < 0 THEN -n ELSE n
    IN  [neg |-> n < 0,
         mag |-> [i \in 1..7 |->
                    CASE i = 1 -> m % 1000
                      [] i = 2 -> (m \div 1000) % 1000
                      [] i = 3 -> (m \div 1000000) % 1000
                      [] OTHER -> 0]]

\* 9223372036854775807 and -9223372036854775808
MaxInt64 == [neg |-> FALSE, mag |-> <<807, 775, 854, 36, 372, 223, 9>>]
MinInt64 == [neg |-> TRUE, mag |-> <<808, 775, 854, 36, 372, 223, 9>>]

MagLess(a, b) ==
    \E i \in 1..7 : a[i] < b[i] /\ \A j \in (i + 1)..7 : a[j] = b[j]

MagAdd(a, b) ==
    LET carry[i \in 0..7] ==
            IF i = 0 THEN 0 ELSE (a[i] + b[i] + carry[i - 1]) \div 1000
    IN  [i \in 1..7 |-> (a[i] + b[i] + carry[i - 1]) % 1000]

\* a - b for a >= b
MagSub(a, b) ==
    LET borrow[i \in 0..7] ==
            IF i = 0 THEN 0
            ELSE IF a[i] - b[i] - borrow[i - 1] < 0 THEN 1 ELSE 0
    IN  [i \in 1..7 |-> (a[i] - b[i] - borrow[i - 1]) % 1000]

\* two's complement wrap-around of a result outside the int64 range
Wrap64(neg, mag) ==
    LET twoTo64 == <<616, 551, 709, 73, 744, 446, 18>>
    IN  IF mag = I64(0).mag THEN [neg |-> FALSE, mag |-> mag]
        ELSE IF ~neg /\ MagLess(MaxInt64.mag, mag)
        THEN [neg |-> TRUE, mag |-> MagSub(twoTo64, mag)]
        ELSE IF neg /\ MagLess(MinInt64.mag, mag)
        THEN [neg |-> FALSE, mag |-> MagSub(twoTo64, mag)]
        ELSE [neg |-> neg, mag |-> mag]

\* x + y on int64
Add64(x, y) ==
    IF x.neg = y.neg THEN Wrap64(x.neg, MagAdd(x.mag, y.mag))
    ELSE IF MagLess(x.mag, y.mag) THEN Wrap64(y.neg, MagSub(y.mag, x.mag))
    ELSE Wrap64(x.neg, MagSub(x.mag, y.mag))

\* x / 1000 on int64: Go's division truncates towards zero
Quo1000(x) ==
    LET mag == Tail(x.mag) \o <<0>>
    IN  [neg |-> x.neg /\ mag # I64(0).mag, mag |-> mag]

\* an argument: elems holds the elements when the argument is itself a slice
ArgString(s) == [t |-> "string", s |-> s, n |-> I64(0), elems |-> <<>>]
ArgInt64(x) == [t |-> "int", s |-> "", n |-> x, elems |-> <<>>]
ArgInt(n) == ArgInt64(I64(n))
ArgSlice(elems) == [t |-> "slice", s |-> "", n |-> I64(0), elems |-> elems]

IsStringLike(a) == a.t = "string" \/ a.t = "bytes"

\* strings.EqualFold against an upper-case ASCII keyword
ToUpper(s) ==
    CASE s = "nx" -> "NX" [] s = "xx" -> "XX" [] s = "ex" -> "EX"
      [] s = "px" -> "PX" [] s = "set" -> "SET" [] s = "get" -> "GET"
      [] s = "del" -> "DEL" [] s = "self" -> "SELF" [] s = "ledis" -> "LEDIS"
      [] s = "Nx" -> "NX" [] s = "xX" -> "XX" [] s = "Ex" -> "EX"
      [] s = "pX" -> "PX" [] s = "exists" -> "EXISTS" [] s = "zadd" -> "ZADD"
      [] s = "incr" -> "INCR" [] s = "ch" -> "CH" [] s = "expire" -> "EXPIRE"
      [] s = "sort" -> "SORT" [] s = "restore" -> "RESTORE"
      [] s = "replace" -> "REPLACE" [] s = "absttl" -> "ABSTTL"
      [] OTHER -> s

\* a comparison that tells the letter cases apart
EqualEither(a, kw) == IsStringLike(a) /\ a.s = kw

EqualFoldEither(a, kw) == IsStringLike(a) /\ ToUpper(a.s) = kw

\* strconv.ParseInt on the decimal strings the model uses
ParseInt(s) ==
    CASE s = "0" -> [err |-> NoErr, n |-> I64(0)]
      [] s = "1" -> [err |-> NoErr, n |-> I64(1)]
      [] s = "2" -> [err |-> NoErr, n |-> I64(2)]
      [] s = "10" -> [err |-> NoErr, n |-> I64(10)]
      [] s = "1500" -> [err |-> NoErr, n |-> I64(1500)]
      [] s = "-1000" -> [err |-> NoErr, n |-> I64(-1000)]
      [] s = "9223372036854775807" -> [err |-> NoErr, n |-> MaxInt64]
      [] s = "9223372036854775808" -> [err |-> "strconv.ErrRange", n |-> MaxInt64]
      [] OTHER -> [err |-> "strconv.ErrSyntax", n |-> I64(0)]

ConvertToInt(a) ==
    IF IsStringLike(a) THEN ParseInt(a.s)
    ELSE IF a.t = "int" THEN [err |-> NoErr, n |-> a.n]
    ELSE [err |-> "ErrInvalidTypeForOperation", n |-> I64(0)]

AsSimpleString(a) == IF IsStringLike(a) THEN a.s ELSE ""

(***************************************************************************)
(* LedisType (src/unnamed/part_000)                                        *)
(***************************************************************************)
LedisTypeNone == "None"
LedisTypeKV == "KV"
LedisTypeList == "List"
LedisTypeHash == "Hash"
LedisTypeSet == "Set"
LedisTypeZSet == "ZSet"
LedisTypes == {LedisTypeNone, LedisTypeKV, LedisTypeList, LedisTypeHash,
               LedisTypeSet, LedisTypeZSet}

(***************************************************************************)
(* Slots, send plans and replies (src/unnamed/part_002, Slot/SendLedisFunc)*)
(***************************************************************************)
Cmd(name, args) == [name |-> name, args |-> args]

\* what running a SendLedisFunc against the wire writes and returns
Plan(cmds, count, fn) ==
    [err |-> NoErr, cmds |-> cmds, RepliesCount |-> count, fn |-> fn]
NoPlan(err) == [err |-> err, cmds |-> <<>>, RepliesCount |-> 0, fn |-> "Nil"]

RInt(n) == [kind |-> "int", n |-> n]
RStatus == [kind |-> "status", n |-> 0]
RNil == [kind |-> "nil", n |-> 0]
ROK == [kind |-> "string:OK", n |-> 0]
RConn == [kind |-> "conn", n |-> 0]
\* replies a LedisDB server may give to one command
RawVals == {RInt(0), RInt(1), RStatus}

RECURSIVE SumInt64(_)
SumInt64(replies) ==
    IF replies = <<>> THEN [err |-> NoErr, val |-> RInt(0)]
    ELSE LET r == Head(replies)
             rest == SumInt64(Tail(replies))
         IN  IF r.kind # "int" THEN [err |-> ErrReplyType, val |-> RNil]
             ELSE IF rest.err # NoErr THEN rest
             ELSE [err |-> NoErr, val |-> RInt(r.n + rest.val.n)]

\* Aggregator(aggregation): the reduce function of a type-specific bulk slot
Aggregator(aggregation, replies) ==
    CASE aggregation = "Sum" -> SumInt64(replies)
      [] aggregation = "CountOne" -> [err |-> NoErr, val |-> RInt(Len(replies))]
      [] aggregation = "First" ->
            IF replies = <<>> THEN [err |-> NoErr, val |-> RNil]
            ELSE [err |-> NoErr, val |-> replies[1]]
      [] OTHER -> [err |-> "ErrInvalidAggregationValue", val |-> RNil]

\* ProcessFunc with the reply of SETNX handed back as it came
ProcessFuncRawSetNX(fn, replies) ==
    CASE fn = "Reply0" -> [err |-> NoErr, val |-> replies[1]]
      [] fn = "SetNX" -> [err |-> NoErr, val |-> replies[1]]
      [] fn = "Self" -> [err |-> NoErr, val |-> RConn]
      [] fn = "Nil" -> [err |-> NoErr, val |-> RNil]
      [] OTHER -> Aggregator(fn, replies)

\* slot.ProcessFunc(replies) for the reduce functions the transformers build
ProcessFunc(fn, replies) ==
    CASE fn = "Reply0" -> [err |-> NoErr, val |-> replies[1]]
      [] fn = "SetNX" ->
            IF replies[1].kind # "int" THEN [err |-> ErrReplyType, val |-> RNil]
            ELSE IF replies[1].n = 0 THEN [err |-> NoErr, val |-> RNil]
            ELSE [err |-> NoErr, val |-> ROK]
      [] fn = "Self" -> [err |-> NoErr, val |-> RConn]
      [] fn = "Nil" -> [err |-> NoErr, val |-> RNil]
      [] OTHER -> Aggregator(fn, replies)

(***************************************************************************)
(* Transformers (src/transformers.go)                                      *)
(***************************************************************************)
NoneTransformer(name, args) == Plan(<<Cmd(name, args)>>, 1, "Reply0")

NoSetInfo ==
    [err |-> NoErr, EXSet |-> FALSE, EX |-> I64(0), PXSet |-> FALSE, PX |-> I64(0),
     NXSet |-> FALSE, XXSet |-> FALSE]

\* the loop of parseSetCommand from index i (1-based) on
RECURSIVE parseSetLoop(_, _, _)
parseSetLoop(args, i, info) ==
    IF i > Len(args) THEN info
    ELSE IF ~IsStringLike(args[i]) THEN [info EXCEPT !.err = ErrInvalidArgumentType]
    ELSE IF EqualFoldEither(args[i], "EX") THEN
        IF i + 1 > Len(args) THEN [info EXCEPT !.err = ErrInvalidSyntax]
        ELSE LET v == ConvertToInt(args[i + 1])
             IN  IF v.err # NoErr THEN [info EXCEPT !.err = v.err, !.EX = v.n]
                 ELSE parseSetLoop(args, i + 2, [info EXCEPT !.EX = v.n, !.EXSet = TRUE])
    ELSE IF EqualFoldEither(args[i], "PX") THEN
        IF i + 1 > Len(args) THEN [info EXCEPT !.err = ErrInvalidSyntax]
        ELSE LET v == ConvertToInt(args[i + 1])
             IN  IF v.err # NoErr THEN [info EXCEPT !.err = v.err, !.PX = v.n]
                 ELSE parseSetLoop(args, i + 2, [info EXCEPT !.PX = v.n, !.PXSet = TRUE])
    ELSE IF EqualFoldEither(args[i], "NX") THEN
        parseSetLoop(args, i + 1, [info EXCEPT !.NXSet = TRUE])
    ELSE IF EqualFoldEither(args[i], "XX") THEN
        parseSetLoop(args, i + 1, [info EXCEPT !.XXSet = TRUE])
    ELSE [info EXCEPT !.err = ErrInvalidSyntax]

parseSetCommand(args) ==
    IF Len(args) < 2 THEN [NoSetInfo EXCEPT !.err = ErrInvalidSyntax]
    ELSE parseSetLoop(args, 3, NoSetInfo)

SetCommandTransformer(args) ==
    LET commandInfo == parseSetCommand(args)
        expSet == commandInfo.EXSet \/ commandInfo.PXSet
        expDuration == IF commandInfo.PXSet
                       THEN Quo1000(Add64(commandInfo.PX, I64(999)))
                       ELSE commandInfo.EX
    IN  IF commandInfo.err # NoErr THEN NoPlan(commandInfo.err)
        ELSE IF commandInfo.XXSet /\ commandInfo.NXSet
            THEN NoPlan(ErrInvalidArgumentCombination)
        ELSE IF commandInfo.EXSet /\ commandInfo.PXSet
            THEN NoPlan(ErrInvalidArgumentCombination)
        ELSE IF commandInfo.XXSet THEN NoPlan(ErrNoEmulationPossible)
        ELSE IF commandInfo.NXSet THEN
            IF expSet
            THEN Plan(<<Cmd("SETNX", <<args[1], args[2]>>),
                        Cmd("EXPIRE", <<args[1], ArgInt64(expDuration)>>)>>, 2, "SetNX")
            ELSE Plan(<<Cmd("SETNX", <<args[1], args[2]>>)>>, 1, "SetNX")
        ELSE IF expSet
            THEN Plan(<<Cmd("SETEX", <<args[1], ArgInt64(expDuration), args[2]>>)>>,
                      1, "Reply0")
        ELSE Plan(<<Cmd("SET", <<args[1], args[2]>>)>>, 1, "Reply0")

UnsafeCommandTransformer(args) ==
    IF Len(args) < 1 THEN NoPlan(ErrInvalidSyntax)
    ELSE IF ~IsStringLike(args[1]) THEN NoPlan(ErrInvalidArgumentType)
    ELSE IF EqualFoldEither(args[1], "LEDIS") THEN
        IF Len(args) < 2 THEN NoPlan(ErrInvalidSyntax)
        ELSE IF ~IsStringLike(args[2]) THEN NoPlan(ErrInvalidArgumentType)
        ELSE Plan(<<Cmd(args[2].s, SubSeq(args, 3, Len(args)))>>, 1, "Reply0")
    ELSE IF EqualFoldEither(args[1], "SELF") THEN
        IF Len(args) # 1 THEN NoPlan(ErrInvalidSyntax)
        ELSE Plan(<<>>, 0, "Self")
    ELSE NoPlan(ErrSubCommandUnknown)

\* the loop of parseZaddCommand from index i (1-based) on: NumFlags is counted
\* for every string-like argument looked at, the one that ends the loop included
RECURSIVE parseZaddLoop(_, _, _)
parseZaddLoop(args, i, info) ==
    IF i > Len(args) THEN info
    ELSE IF ~IsStringLike(args[i]) THEN info
    ELSE LET counted == [info EXCEPT !.NumFlags = @ + 1]
         IN  IF EqualFoldEither(args[i], "NX")
             THEN parseZaddLoop(args, i + 1, [counted EXCEPT !.NXSet = TRUE])
             ELSE IF EqualFoldEither(args[i], "XX")
             THEN parseZaddLoop(args, i + 1, [counted EXCEPT !.XXSet = TRUE])
             ELSE IF EqualFoldEither(args[i], "INCR")
             THEN parseZaddLoop(args, i + 1, [counted EXCEPT !.INCRSet = TRUE])
             ELSE IF EqualFoldEither(args[i], "CH")
             THEN parseZaddLoop(args, i + 1, [counted EXCEPT !.CHSet = TRUE])
             ELSE counted

parseZaddCommand(args) ==
    LET zero == [err |-> NoErr, NumFlags |-> 0, NXSet |-> FALSE, XXSet |-> FALSE,
                 INCRSet |-> FALSE, CHSet |-> FALSE]
        info == parseZaddLoop(args, 2, zero)
    IN  IF Len(args) < 3 THEN [zero EXCEPT !.err = ErrInvalidSyntax]
        ELSE IF (Len(args) - (info.NumFlags + 1)) % 2 # 0
        THEN [info EXCEPT !.err = ErrInvalidSyntax]
        ELSE info

\* the ZADD branch hands args[NumFlags+1:] to the variadic Send as one argument
ZaddCommandTransformer(args) ==
    LET commandInfo == parseZaddCommand(args)
    IN  IF commandInfo.err # NoErr THEN NoPlan(commandInfo.err)
        ELSE IF commandInfo.XXSet /\ commandInfo.NXSet
            THEN NoPlan(ErrInvalidArgumentCombination)
        ELSE IF commandInfo.XXSet \/ commandInfo.NXSet \/ commandInfo.CHSet
            THEN NoPlan(ErrNoEmulationPossible)
        ELSE IF commandInfo.INCRSet /\ Len(args) - (commandInfo.NumFlags + 1) # 2
            THEN NoPlan(ErrInvalidSyntax)
        ELSE IF commandInfo.INCRSet
            THEN Plan(<<Cmd("ZINCRBY", <<args[1], args[commandInfo.NumFlags + 2],
                                         args[commandInfo.NumFlags + 3]>>)>>, 1, "Reply0")
        ELSE Plan(<<Cmd("ZADD", <<args[1],
                                  ArgSlice(SubSeq(args, commandInfo.NumFlags + 2,
                                                  Len(args)))>>)>>, 1, "Reply0")

NoRestoreInfo ==
    [err |-> NoErr, REPLACESet |-> FALSE, ABSTTLSet |-> FALSE,
     IDLETIMESet |-> FALSE, IDLETIME |-> I64(0), FREQSet |-> FALSE, FREQ |-> I64(0)]

\* parseRestoreCommand: the loop over the arguments, i the Go index plus one
RECURSIVE parseRestoreLoop(_, _, _)
parseRestoreLoop(args, i, info) ==
    IF i > Len(args) THEN info
    ELSE IF ~IsStringLike(args[i])
    THEN [info EXCEPT !.err = ErrInvalidArgumentType]
    ELSE IF EqualFoldEither(args[i], "REPLACE")
    THEN parseRestoreLoop(args, i + 1, [info EXCEPT !.REPLACESet = TRUE])
    ELSE IF EqualFoldEither(args[i], "ABSTTL")
    THEN parseRestoreLoop(args, i + 1, [info EXCEPT !.ABSTTLSet = TRUE])
    ELSE IF EqualFoldEither(args[i], "IDLETIME")
    THEN IF i + 1 > Len(args) THEN [info EXCEPT !.err = ErrInvalidSyntax]
         ELSE IF ConvertToInt(args[i + 1]).err # NoErr
         THEN [info EXCEPT !.err = ConvertToInt(args[i + 1]).err,
                           !.IDLETIME = ConvertToInt(args[i + 1]).n]
         ELSE parseRestoreLoop(args, i + 2,
                               [info EXCEPT !.IDLETIME = ConvertToInt(args[i + 1]).n,
                                            !.IDLETIMESet = TRUE])
    ELSE IF EqualFoldEither(args[i], "FREQ")
    THEN IF i + 1 > Len(args) THEN [info EXCEPT !.err = ErrInvalidSyntax]
         ELSE IF ConvertToInt(args[i + 1]).err # NoErr
         THEN [info EXCEPT !.err = ConvertToInt(args[i + 1]).err,
                           !.FREQ = ConvertToInt(args[i + 1]).n]
         ELSE parseRestoreLoop(args, i + 2,
                               [info EXCEPT !.FREQ = ConvertToInt(args[i + 1]).n,
                                            !.IDLETIMESet = TRUE])
    ELSE [info EXCEPT !.err = ErrInvalidSyntax]

\* parseRestoreCommand: at least key, ttl and value; the loop begins at
\* args[1], the ttl
parseRestoreCommand(args) ==
    IF Len(args) < 3 THEN [NoRestoreInfo EXCEPT !.err = ErrInvalidSyntax]
    ELSE parseRestoreLoop(args, 2, NoRestoreInfo)

\* RestoreCommandTransformer: with ABSTTL, RESTORE key 0 value and EXPIREAT key
\* args[1]; else RESTORE with the first three arguments; the reply of RESTORE
RestoreCommandTransformer(args) ==
    LET commandInfo == parseRestoreCommand(args)
        expireAtTimestamp == ConvertToInt(args[2])
    IN  IF commandInfo.err # NoErr THEN NoPlan(commandInfo.err)
        ELSE IF commandInfo.ABSTTLSet /\ expireAtTimestamp.err # NoErr
            THEN NoPlan(expireAtTimestamp.err)
        ELSE IF commandInfo.ABSTTLSet
            THEN Plan(<<Cmd("RESTORE", <<args[1], ArgInt(0), args[3]>>),
                        Cmd("EXPIREAT", <<args[1], ArgInt64(expireAtTimestamp.n)>>)>>,
                      2, "Reply0")
        ELSE Plan(<<Cmd("RESTORE", <<args[1], args[2], args[3]>>)>>, 1, "Reply0")

\* ArgsExtractor values: ArgsAtIndices(indices...), ArgsFromIndex(from), or nil
ArgsAtIndices(indices) == [kind |-> "AtIndices", indices |-> indices, from |-> 0]
ArgsFromIndex(from) == [kind |-> "FromIndex", indices |-> <<>>, from |-> from]
NoExtractor == [kind |-> "nil", indices |-> <<>>, from |-> 0]

\* ArgsAtIndices reads args[argIndex] for every index: out of range panics
ExtractPanics(extractor, args) ==
    \E i \in 1..Len(extractor.indices) : extractor.indices[i] + 1 > Len(args)

\* extractor.AppendArgs(extracted[:0], args)
AppendArgs(extractor, args) ==
    CASE extractor.kind = "AtIndices" ->
            [i \in 1..Len(extractor.indices) |-> args[extractor.indices[i] + 1]]
      [] extractor.kind = "FromIndex" -> SubSeq(args, extractor.from + 1, Len(args))
      [] OTHER -> <<>>

\* KeyTypeAggregation.AppendKeys: the keys of typesInfo that resolved to ledisType
KeysOfType(typesInfo, ledisType) ==
    LET sel == SelectSeq(typesInfo, LAMBDA ti : ti.Type = ledisType)
    IN  [i \in 1..Len(sel) |-> ArgString(sel[i].Key)]

\* sendBulk with sentCount taken from the number of keys in both modes
sendBulkCountKeys(command, keys, debulk, appendArgs) ==
    IF command # "" /\ Len(keys) > 0
    THEN IF debulk
         THEN [cmds |-> [i \in 1..Len(keys) |-> Cmd(command, <<keys[i]>> \o appendArgs)],
               sentCount |-> Len(keys)]
         ELSE [cmds |-> <<Cmd(command, keys \o appendArgs)>>, sentCount |-> Len(keys)]
    ELSE [cmds |-> <<>>, sentCount |-> 0]

\* sendBulk: the commands sent for one type bin and the sentCount returned
sendBulk(command, keys, debulk, appendArgs) ==
    IF command # "" /\ Len(keys) > 0
    THEN IF debulk
         THEN [cmds |-> [i \in 1..Len(keys) |-> Cmd(command, <<keys[i]>> \o appendArgs)],
               sentCount |-> Len(keys)]
         ELSE [cmds |-> <<Cmd(command, keys \o appendArgs)>>, sentCount |-> 1]
    ELSE [cmds |-> <<>>, sentCount |-> 0]

\* sendBulkForAllTypes without the sentCount of the last bin added
sendBulkForAllTypesUncountedZSet(config, typesInfo, appendArgs) ==
    LET bin(command, ledisType) ==
            sendBulk(command, KeysOfType(typesInfo, ledisType), config.Debulk, appendArgs)
        none == bin(config.Commands.None, LedisTypeNone)
        kv == bin(config.Commands.KV, LedisTypeKV)
        list == bin(config.Commands.List, LedisTypeList)
        hash == bin(config.Commands.Hash, LedisTypeHash)
        set == bin(config.Commands.Set, LedisTypeSet)
        zset == bin(config.Commands.ZSet, LedisTypeZSet)
    IN  [cmds |-> none.cmds \o kv.cmds \o list.cmds \o hash.cmds \o set.cmds \o zset.cmds,
         repliesCount |-> none.sentCount + kv.sentCount + list.sentCount
                          + hash.sentCount + set.sentCount]

sendBulkForAllTypes(config, typesInfo, appendArgs) ==
    LET bin(command, ledisType) ==
            sendBulk(command, KeysOfType(typesInfo, ledisType), config.Debulk, appendArgs)
        none == bin(config.Commands.None, LedisTypeNone)
        kv == bin(config.Commands.KV, LedisTypeKV)
        list == bin(config.Commands.List, LedisTypeList)
        hash == bin(config.Commands.Hash, LedisTypeHash)
        set == bin(config.Commands.Set, LedisTypeSet)
        zset == bin(config.Commands.ZSet, LedisTypeZSet)
    IN  [cmds |-> none.cmds \o kv.cmds \o list.cmds \o hash.cmds \o set.cmds \o zset.cmds,
         repliesCount |-> none.sentCount + kv.sentCount + list.sentCount
                          + hash.sentCount + set.sentCount + zset.sentCount]

\* resolved: what resolver.ResolveAppend returned for the command's keys
TypeSpecificBulkTransformer(config, command, args, resolved) ==
    IF ExtractPanics(command.KeyExtractor, args) THEN NoPlan("panic: index out of range")
    ELSE IF resolved.err # NoErr THEN NoPlan(resolved.err)
    ELSE IF ExtractPanics(config.AppendArgsExtractor, args)
        THEN NoPlan("panic: index out of range")
    ELSE LET appendArgs == AppendArgs(config.AppendArgsExtractor, args)
             sent == sendBulkForAllTypes(config, resolved.typesInfo, appendArgs)
         IN  Plan(sent.cmds, sent.repliesCount, config.Aggregation)

(***************************************************************************)
(* Command catalog (src/unnamed/part_001)                                  *)
(***************************************************************************)
\* DEL with a command configured for the keys that resolved to None
RedisCommandDELNoneToo ==
    [Name |-> "DEL", Transform |-> "TypeSpecificBulk",
     KeyExtractor |-> ArgsFromIndex(0),
     Config |-> [Commands |-> [None |-> "DEL", KV |-> "DEL", List |-> "LMCLEAR",
                               Hash |-> "HMCLEAR", Set |-> "SMCLEAR",
                               ZSet |-> "ZMCLEAR"],
                 Debulk |-> FALSE, Aggregation |-> "Sum",
                 AppendArgsExtractor |-> NoExtractor]]

RedisCommandDEL ==
    [Name |-> "DEL", Transform |-> "TypeSpecificBulk",
     KeyExtractor |-> ArgsFromIndex(0),
     Config |-> [Commands |-> [None |-> "", KV |-> "DEL", List |-> "LMCLEAR",
                               Hash |-> "HMCLEAR", Set |-> "SMCLEAR",
                               ZSet |-> "ZMCLEAR"],
                 Debulk |-> FALSE, Aggregation |-> "Sum",
                 AppendArgsExtractor |-> NoExtractor]]

RedisCommandEXISTS ==
    [Name |-> "EXISTS", Transform |-> "TypeSpecificBulk",
     KeyExtractor |-> ArgsAtIndices(<<0>>),
     Config |-> [Commands |-> [None |-> "", KV |-> "EXISTS", List |-> "LKEYEXISTS",
                               Hash |-> "HKEYEXISTS", Set |-> "SKEYEXISTS",
                               ZSet |-> "ZKEYEXISTS"],
                 Debulk |-> TRUE, Aggregation |-> "Sum",
                 AppendArgsExtractor |-> NoExtractor]]

RedisCommandEXPIRE ==
    [Name |-> "EXPIRE", Transform |-> "TypeSpecificBulk",
     KeyExtractor |-> ArgsAtIndices(<<0>>),
     Config |-> [Commands |-> [None |-> "", KV |-> "EXPIRE", List |-> "LEXPIRE",
                               Hash |-> "HEXPIRE", Set |-> "SEXPIRE",
                               ZSet |-> "ZEXPIRE"],
                 Debulk |-> FALSE, Aggregation |-> "Sum",
                 AppendArgsExtractor |-> ArgsAtIndices(<<1>>)]]

RedisCommandSORT ==
    [Name |-> "SORT", Transform |-> "TypeSpecificBulk",
     KeyExtractor |-> ArgsAtIndices(<<0>>),
     Config |-> [Commands |-> [None |-> "", KV |-> "", List |-> "XLSORT",
                               Hash |-> "", Set |-> "XSSORT", ZSet |-> "XZSORT"],
                 Debulk |-> FALSE, Aggregation |-> "First",
                 AppendArgsExtractor |-> NoExtractor]]

NoConfig ==
    [Commands |-> [None |-> "", KV |-> "", List |-> "", Hash |-> "", Set |-> "",
                   ZSet |-> ""],
     Debulk |-> FALSE, Aggregation |-> "Sum", AppendArgsExtractor |-> NoExtractor]

Descriptor(name, transform) ==
    [Name |-> name, Transform |-> transform, KeyExtractor |-> ArgsAtIndices(<<0>>),
     Config |-> NoConfig]

\* nil when the switch on strings.ToUpper(name) has no case for it
RedisCommandFromName(name) ==
    CASE ToUpper(name) = "GET" -> Descriptor("GET", "None")
      [] ToUpper(name) = "SET" -> Descriptor("SET", "Set")
      [] ToUpper(name) = "DEL" -> RedisCommandDEL
      [] ToUpper(name) = "EXISTS" -> RedisCommandEXISTS
      [] ToUpper(name) = "EXPIRE" -> RedisCommandEXPIRE
      [] ToUpper(name) = "SORT" -> RedisCommandSORT
      [] ToUpper(name) = "ZADD" -> Descriptor("ZADD", "Zadd")
      [] ToUpper(name) = "RESTORE" -> Descriptor("RESTORE", "Restore")
      [] ToUpper(name) = "UNSAFE" -> [Descriptor("UNSAFE", "Unsafe")
                                        EXCEPT !.KeyExtractor = ArgsAtIndices(<<>>)]
      [] OTHER -> [Descriptor("", "nil") EXCEPT !.KeyExtractor = NoExtractor]

\* the keys a type-specific bulk transform resolves: command.KeyExtractor
\* applied to args, each as a simple string
CommandKeys(command, args) ==
    IF command.Transform # "TypeSpecificBulk" \/ ExtractPanics(command.KeyExtractor, args)
    THEN <<>>
    ELSE LET keyArgs == AppendArgs(command.KeyExtractor, args)
         IN  [i \in 1..Len(keyArgs) |-> AsSimpleString(keyArgs[i])]

\* Rewriter.Rewrite followed by what the returned SendLedisFunc does
Rewrite(commandName, args, resolved) ==
    LET command == RedisCommandFromName(commandName)
    IN  CASE command.Transform = "nil" -> NoPlan(ErrUnknownRedisCommandName)
          [] command.Transform = "None" -> NoneTransformer(command.Name, args)
          [] command.Transform = "Set" -> SetCommandTransformer(args)
          [] command.Transform = "Unsafe" -> UnsafeCommandTransformer(args)
          [] command.Transform = "Zadd" -> ZaddCommandTransformer(args)
          [] command.Transform = "Restore" -> RestoreCommandTransformer(args)
          [] command.Transform = "TypeSpecificBulk" ->
                TypeSpecificBulkTransformer(command.Config, command, args, resolved)

(***************************************************************************)
(* LedisConn (src/ledisconn.go)                                            *)
(***************************************************************************)
\* the calls the single caller of the connection issues
ConnCalls ==
    { [name |-> "GET", args |-> <<ArgString("k")>>],
      [name |-> "set", args |-> <<ArgString("k"), ArgString("v"), ArgString("nx"),
                                  ArgString("EX"), ArgInt(10)>>],
      [name |-> "SET", args |-> <<ArgString("k"), ArgString("v"), ArgString("XX")>>],
      [name |-> "DEL", args |-> <<ArgString("a"), ArgString("b")>>],
      [name |-> "UNSAFE", args |-> <<ArgString("SELF")>>],
      [name |-> "MULTI", args |-> <<>>] }

\* Do and DoWithTimeout also take the empty command name
EmptyCall == [name |-> "", args |-> <<>>]

\* the types the resolver reports for the keys of a generic command in SpecConn
ConnTypes == {LedisTypeNone, LedisTypeKV, LedisTypeList}

\* resolver.ResolveAppend as seen from a transform: an error, or one type per key
ResolveOutcomes(call) ==
    LET keys == CommandKeys(RedisCommandFromName(call.name), call.args)
    IN  IF keys = <<>> THEN {[err |-> NoErr, typesInfo |-> <<>>]}
        ELSE {[err |-> ErrErrorCacheEntryState, typesInfo |-> <<>>]}
             \cup {[err |-> NoErr,
                    typesInfo |-> [i \in 1..Len(keys) |-> [Key |-> keys[i], Type |-> f[i]]]]
                   : f \in [1..Len(keys) -> ConnTypes]}

\* the commands of a plan as they sit on the wire: tagged with the send that wrote them
OnWire(cmds, sid) == [i \in 1..Len(cmds) |-> [sid |-> sid, idx |-> i, cmd |-> cmds[i]]]

NoSlot == [RepliesCount |-> 0, fn |-> "Nil", sid |-> 0]

\* rewriteAndSend: the Slot and the commands written, or the error of Rewrite or
\* of a Send on the wire
rewriteAndSend(call, sid) ==
    UNION { LET plan == Rewrite(call.name, call.args, resolved)
            IN  IF plan.err # NoErr
                THEN {[err |-> plan.err, slot |-> NoSlot, written |-> <<>>]}
                ELSE {[err |-> NoErr,
                       slot |-> [RepliesCount |-> plan.RepliesCount, fn |-> plan.fn,
                                 sid |-> sid],
                       written |-> OnWire(plan.cmds, sid)]}
                     \cup (IF plan.cmds = <<>> THEN {}
                           ELSE {[err |-> ErrWire, slot |-> NoSlot, written |-> <<>>]})
          : resolved \in ResolveOutcomes(call) }

\* a deque insertion at the front
PushFront(q, slot) == <<slot>> \o q

\* l.slots.PushBack(slot)
PushBack(q, slot) == Append(q, slot)

\* consumeSlots with the outer loop stopped after the first slot
consumeFirstSlot(q) ==
    IF q = <<>> THEN 0 ELSE Head(q).RepliesCount

\* consumeSlots: the number of conn.Receive calls its two loops make
RECURSIVE consumeSlots(_)
consumeSlots(q) ==
    IF q = <<>> THEN 0 ELSE Head(q).RepliesCount + consumeSlots(Tail(q))

\* receiveRepliesAppend: count raw replies read off the wire in order, or the
\* error of a conn.Receive (none is called when count is 0)
receiveRepliesAppend(count, server) ==
    (IF count > 0 THEN {[err |-> ErrWire, replies |-> <<>>, rest |-> <<>>]} ELSE {})
    \cup (IF Len(server) >= count
          THEN {[err |-> NoErr,
                 replies |-> [i \in 1..count |->
                                [sid |-> server[i].sid, idx |-> server[i].idx, val |-> vals[i]]],
                 rest |-> SubSeq(server, count + 1, Len(server))]
                : vals \in [1..count -> RawVals]}
          ELSE {})

Vals(replies) == [i \in 1..Len(replies) |-> replies[i].val]
Ids(replies) == [i \in 1..Len(replies) |-> <<replies[i].sid, replies[i].idx>>]

Returned(op, err) ==
    [op |-> op, ret |-> err, sid |-> 0, raw |-> <<>>, vals |-> <<>>, val |-> RNil,
     drained |-> 0]

Reduced(op, slot, replies, val) ==
    [op |-> op, ret |-> NoErr, sid |-> slot.sid,
     raw |-> Ids(replies), vals |-> Vals(replies), val |-> val, drained |-> 0]

\* the record kept of a send: the reduce function of its Slot and how many
\* commands its plan wrote to the wire
Logged(s) == [fn |-> s.slot.fn, written |-> Len(s.written)]

\* a return that treats its error as fatal: the error is stored, the wire
\* closed and the slots dropped
ReturnFatal(op, err) ==
    /\ lerr' = IF lerr = NoErr THEN err ELSE lerr
    /\ conn' = "nil"
    /\ slots' = <<>>
    /\ wbuf' = <<>>
    /\ owed' = <<>>
    /\ last' = [op |-> op, ret |-> err, sid |-> 0, raw |-> <<>>, vals |-> <<>>,
                val |-> [kind |-> "nil", n |-> 0], drained |-> 0]
    /\ UNCHANGED <<timed, nsent, consumed, sendLog, notConn>>

\* a method that returns err and changes nothing
ReturnOnly(op, err) ==
    /\ last' = Returned(op, err)
    /\ UNCHANGED <<conn, lerr, slots, wbuf, owed, timed, nsent, consumed, sendLog, notConn>>

\* fatal without the call to Close: the error is stored, the wire stays
fatalNoClose(op, err) ==
    /\ lerr' = IF lerr = NoErr THEN err ELSE lerr
    /\ last' = Returned(op, err)
    /\ UNCHANGED <<conn, slots, wbuf, owed, timed, nsent, consumed, sendLog, notConn>>

\* fatal with a Close that leaves l.slots alone
fatalKeepSlots(op, err) ==
    /\ lerr' = IF lerr = NoErr THEN err ELSE lerr
    /\ conn' = "nil"
    /\ wbuf' = <<>>
    /\ owed' = <<>>
    /\ last' = Returned(op, err)
    /\ UNCHANGED <<slots, timed, nsent, consumed, sendLog, notConn>>

\* return l.fatal(err): store the first error, close the wire, drop the slots
fatal(op, err) ==
    /\ lerr' = IF lerr = NoErr THEN err ELSE lerr
    /\ conn' = "nil"
    /\ slots' = <<>>
    /\ wbuf' = <<>>
    /\ owed' = <<>>
    /\ last' = Returned(op, err)
    /\ UNCHANGED <<timed, nsent, consumed, sendLog, notConn>>

\* l.Err()
Err ==
    IF lerr # NoErr THEN lerr
    ELSE IF conn = "nil" THEN ErrConnClosed
    ELSE NoErr

Close ==
    IF conn = "nil" THEN ReturnOnly("Close", ErrConnClosed)
    ELSE \E e \in {NoErr, ErrWire} :
            /\ conn' = "nil"
            /\ slots' = <<>>
            /\ wbuf' = <<>>
            /\ owed' = <<>>
            /\ last' = Returned("Close", e)
            /\ UNCHANGED <<lerr, timed, nsent, consumed, sendLog, notConn>>

\* Send that returns the error of rewriteAndSend without the call to fatal
SendReturnsError(call) ==
    IF conn = "nil" THEN ReturnOnly("Send", ErrConnClosed)
    ELSE /\ nsent < MaxSends
         /\ \E s \in rewriteAndSend(call, nsent + 1) :
              IF s.err # NoErr THEN ReturnOnly("Send", s.err)
              ELSE /\ slots' = PushBack(slots, s.slot)
                   /\ wbuf' = wbuf \o s.written
                   /\ nsent' = nsent + 1
                   /\ sendLog' = Append(sendLog, Logged(s))
                   /\ last' = Returned("Send", NoErr)
                   /\ UNCHANGED <<conn, lerr, owed, timed, consumed, notConn>>

Send(call) ==
    IF conn = "nil" THEN ReturnOnly("Send", ErrConnClosed)
    ELSE /\ nsent < MaxSends
         /\ \E s \in rewriteAndSend(call, nsent + 1) :
              IF s.err # NoErr THEN fatal("Send", s.err)
              ELSE /\ slots' = PushBack(slots, s.slot)
                   /\ wbuf' = wbuf \o s.written
                   /\ nsent' = nsent + 1
                   /\ sendLog' = Append(sendLog, Logged(s))
                   /\ last' = Returned("Send", NoErr)
                   /\ UNCHANGED <<conn, lerr, owed, timed, consumed, notConn>>

Flush ==
    IF conn = "nil" THEN ReturnOnly("Flush", ErrConnClosed)
    ELSE \/ fatal("Flush", ErrWire)
         \/ /\ owed' = owed \o wbuf
            /\ wbuf' = <<>>
            /\ last' = Returned("Flush", NoErr)
            /\ UNCHANGED <<conn, lerr, slots, timed, nsent, consumed, sendLog, notConn>>

\* the body Receive and ReceiveWithTimeout share from PopFront on
PopAndReduce(op) ==
    /\ slots # <<>>
    /\ LET slot == Head(slots)
       IN  \E r \in receiveRepliesAppend(slot.RepliesCount, owed) :
             IF r.err # NoErr THEN fatal(op, r.err)
             ELSE LET p == ProcessFunc(slot.fn, Vals(r.replies))
                  IN  IF p.err # NoErr THEN fatal(op, p.err)
                      ELSE /\ slots' = Tail(slots)
                           /\ owed' = r.rest
                           /\ consumed' = consumed + 1
                           /\ last' = Reduced(op, slot, r.replies, p.val)
                           /\ UNCHANGED <<conn, lerr, wbuf, timed, nsent, sendLog, notConn>>

Receive ==
    IF conn = "nil" THEN ReturnOnly("Receive", ErrConnClosed)
    ELSE PopAndReduce("Receive")

ReceiveWithTimeout ==
    IF conn = "nil" THEN ReturnOnly("ReceiveWithTimeout", ErrConnClosed)
    ELSE IF ~timed THEN ReturnOnly("ReceiveWithTimeout", ErrTimeoutNotSupported)
    ELSE PopAndReduce("ReceiveWithTimeout")

\* the body Do and DoWithTimeout share: rewriteAndSend, Flush, consumeSlots,
\* then the replies of the command's own slot
SendFlushDrainReduce(op, call) ==
    /\ call.name # "" => nsent < MaxSends
    /\ \E s \in (IF call.name # "" THEN rewriteAndSend(call, nsent + 1)
                 ELSE {[err |-> NoErr, slot |-> NoSlot, written |-> <<>>]}) :
         \/ s.err # NoErr /\ fatal(op, s.err)
         \/ s.err = NoErr /\ fatal(op, ErrWire)
         \/ /\ s.err = NoErr
            /\ LET server == owed \o wbuf \o s.written
                   drain == consumeSlots(slots)
               IN  /\ Len(server) >= drain
                   /\ \E r \in receiveRepliesAppend(
                                  s.slot.RepliesCount,
                                  SubSeq(server, drain + 1, Len(server))) :
                        /\ r.err = NoErr
                        /\ LET p == IF call.name # ""
                                    THEN ProcessFunc(s.slot.fn, Vals(r.replies))
                                    ELSE [err |-> NoErr, val |-> RNil]
                           IN  IF p.err # NoErr THEN fatal(op, p.err)
                               ELSE /\ slots' = <<>>
                                    /\ wbuf' = <<>>
                                    /\ owed' = r.rest
                                    /\ nsent' = IF call.name # "" THEN nsent + 1 ELSE nsent
                                    /\ sendLog' = IF call.name # ""
                                                  THEN Append(sendLog, Logged(s))
                                                  ELSE sendLog
                                    /\ consumed' = consumed + Len(slots)
                                                   + (IF call.name # "" THEN 1 ELSE 0)
                                    /\ last' = [Reduced(op, s.slot, r.replies, p.val)
                                                  EXCEPT !.drained = drain]
                                    /\ UNCHANGED <<conn, lerr, timed, notConn>>

Do(call) ==
    IF conn = "nil" THEN ReturnOnly("Do", ErrConnClosed)
    ELSE SendFlushDrainReduce("Do", call)

DoWithTimeout(call) ==
    IF conn = "nil" THEN ReturnOnly("DoWithTimeout", ErrConnClosed)
    ELSE IF ~timed THEN ReturnOnly("DoWithTimeout", ErrTimeoutNotSupported)
    ELSE SendFlushDrainReduce("DoWithTimeout", call)

(***************************************************************************)
(* Cache (src/unnamed/part_004)                                            *)
(***************************************************************************)
CacheEntryStateNone == "None"
CacheEntryStateLoading == "Loading"
CacheEntryStateExists == "Exists"
CacheEntryStateDeleted == "Deleted"
CacheEntryStateError == "Error"

Keys == {"x", "y"}

\* a nil channel
NilChan == 0

\* a cacheEntry; the zero entry stands for a key the map does not hold
cacheEntry(state, type, doneLoading) ==
    [present |-> TRUE, State |-> state, Type |-> type, DoneLoading |-> doneLoading]
NoEntry ==
    [present |-> FALSE, State |-> CacheEntryStateNone, Type |-> LedisTypeNone,
     DoneLoading |-> NilChan]

\* CacheEntryData: the copy copyFrom takes of an entry
CacheEntryData(key, entry) ==
    [Key |-> key, State |-> entry.State, Type |-> entry.Type,
     DoneLoading |-> entry.DoneLoading]

\* CacheEntrySetter; ch remembers the channel after doneLoading is reset to
\* nil, set tells whether Set has written the entry
CacheEntrySetter(key, doneLoading) ==
    [Key |-> key, doneLoading |-> doneLoading, ch |-> doneLoading, set |-> FALSE]

\* sync.Map.Store: the entry is put whatever the map holds
StoreAlways(m, key, entry) ==
    [loaded |-> FALSE, actual |-> entry, m |-> [m EXCEPT ![key] = entry]]

\* sync.Map.LoadOrStore: the stored entry if there is one, else entry is put
LoadOrStore(m, key, entry) ==
    IF m[key].present
    THEN [loaded |-> TRUE, actual |-> m[key], m |-> m]
    ELSE [loaded |-> FALSE, actual |-> entry, m |-> [m EXCEPT ![key] = entry]]

\* a validity test that accepts only Exists
IsExists(state) == state = CacheEntryStateExists

\* the test of prepareEntry: the entry's data is valid for the caller
IsExistsOrLoading(state) ==
    state = CacheEntryStateExists \/ state = CacheEntryStateLoading

\* the keyType stored as it is passed, whatever the state
StoredTypeAsPassed(state, keyType) == keyType

\* the keyType Set and TrySetEntry store for a state
StoredType(state, keyType) ==
    IF state = CacheEntryStateExists THEN keyType ELSE LedisTypeNone

(***************************************************************************)
(* Resolver (src/unnamed/part_002)                                         *)
(***************************************************************************)
Tasks == {"t1", "t2", "t3"}

\* the tasks are interchangeable: they call ResolveAppend in this order
Earlier(t) == CASE t = "t1" -> {} [] t = "t2" -> {"t1"} [] OTHER -> {"t1", "t2"}

\* the key batches a task may pass to ResolveAppend
Batches == {<<"x">>, <<"x", "y">>, <<"x", "x">>}

\* the types of the keys in the backend, each type a namespace of its own:
\* x missing, a KV key, a list, or a list and a sorted set at once, y a KV key
Backends ==
    {[k \in Keys |-> IF k = "x" THEN types ELSE {LedisTypeKV}] :
        types \in {{}, {LedisTypeKV}, {LedisTypeList}, {LedisTypeList, LedisTypeZSet}}}

\* an order of the type checks that begins with the sorted sets
ledisTypesZSetFirst ==
    <<LedisTypeZSet, LedisTypeKV, LedisTypeList, LedisTypeHash, LedisTypeSet>>

\* the order in which activeResolve checks the types
ledisTypes ==
    <<LedisTypeKV, LedisTypeList, LedisTypeHash, LedisTypeSet, LedisTypeZSet>>

TypeInfo(key, type) == [Key |-> key, Type |-> type]

\* the locals of a task that has not called ResolveAppend
IdleTask ==
    [pc |-> "idle", keys |-> <<>>, ki |-> 1,
     typesInfo |-> <<>>, entriesData |-> <<>>, entrySetters |-> <<>>,
     abase |-> 0, off |-> 0, round |-> 1, sets |-> <<>>, after |-> "done",
     wbase |-> 0, wi |-> 1,
     err |-> NoErr, ret |-> <<>>, cancelled |-> FALSE,
     late |-> FALSE, probed |-> FALSE, dialed |-> FALSE,
     trySet |-> [state |-> CacheEntryStateNone, keyType |-> LedisTypeNone,
                 applied |-> FALSE]]

Running(r) == r.pc \notin {"idle", "done", "panicked"}

\* a swap that loses the element at i: q[j] is written over it only
SwapOverwrites(q, i, j) == [q EXCEPT ![i] = q[j]]

Swap(q, i, j) == [q EXCEPT ![i] = q[j], ![j] = q[i]]

\* sortApartCoSortEntrySetters: entries with a type first, LedisTypeNone last,
\* the same swaps applied to both slices; i counts from 0 as in the code
RECURSIVE sortApartLoop(_, _, _, _)
sortApartLoop(typesInfo, entrySetters, i, noneBegin) ==
    IF i >= noneBegin
    THEN [typesInfo |-> typesInfo, entrySetters |-> entrySetters, noneBegin |-> noneBegin]
    ELSE IF typesInfo[i + 1].Type # LedisTypeNone
    THEN sortApartLoop(typesInfo, entrySetters, i + 1, noneBegin)
    ELSE sortApartLoop(Swap(typesInfo, i + 1, noneBegin),
                       Swap(entrySetters, i + 1, noneBegin), i, noneBegin - 1)

sortApartCoSortEntrySetters(typesInfo, entrySetters) ==
    sortApartLoop(typesInfo, entrySetters, 0, Len(typesInfo))

\* the loops of ResolveAppend that copy the keys into the new typesInfo
\* elements: element i of typesInfo takes list[i] for i from beginIndex on, an
\* index out of range panics
KeysFromIndex(list, beginIndex) ==
    IF \A j \in 1..Len(list) : beginIndex + j <= Len(list)
    THEN [panic |-> FALSE,
          typesInfo |-> [j \in 1..Len(list) |->
                           TypeInfo(list[beginIndex + j].Key, LedisTypeNone)]]
    ELSE [panic |-> TRUE, typesInfo |-> <<>>]

\* ResolveAppend from the end of the key loop to the first checkType
beginActive(r) ==
    LET idx == KeysFromIndex(r.entrySetters, Len(r.typesInfo))
    IN  IF idx.panic THEN [r EXCEPT !.pc = "panicked"]
        ELSE [r EXCEPT !.pc = "probe", !.abase = Len(r.typesInfo),
                       !.typesInfo = r.typesInfo \o idx.typesInfo,
                       !.off = 0, !.round = 1]

\* ResolveAppend from the return of activeResolve to the first select of
\* waitResolve, or to its return when there is no entry to wait for
beginWait(r) ==
    LET idx == KeysFromIndex(r.entriesData, Len(r.typesInfo))
    IN  IF idx.panic THEN [r EXCEPT !.pc = "panicked"]
        ELSE IF r.entriesData = <<>>
        THEN [r EXCEPT !.pc = "done", !.ret = r.typesInfo]
        ELSE [r EXCEPT !.pc = "wait", !.wbase = Len(r.typesInfo),
                       !.typesInfo = r.typesInfo \o idx.typesInfo, !.wi = 1]

\* the steps of a task that touch nothing shared, run with the step before
Local(r) ==
    IF r.pc = "active" THEN beginActive(r)
    ELSE IF r.pc = "waitidx" THEN beginWait(r)
    ELSE r

\* the key loop moves on to the next key
NextKey(r) ==
    Local([r EXCEPT !.ki = r.ki + 1,
                    !.pc = IF r.ki + 1 > Len(r.keys) THEN "active" ELSE "load"])

\* the calls entrySetters[i].Set(state, types[j]) for i = first + j, in order
SetCalls(first, count, state, types) ==
    [j \in 1..count |-> [i |-> first + j, state |-> state, type |-> types[j].Type]]

\* a task that returns its error without making the Set calls
ThenSetsUnlessError(r, sets, after) ==
    LET todo == IF r.err = NoErr THEN sets ELSE <<>>
    IN  [r EXCEPT !.sets = todo, !.after = after,
                  !.pc = IF todo = <<>> THEN after ELSE "set",
                  !.ret = IF todo = <<>> /\ after = "done" /\ r.err = NoErr
                          THEN r.typesInfo ELSE <<>>]

\* a task with Set calls to make goes on to make them, else to what follows
ThenSets(r, sets, after) ==
    [r EXCEPT !.sets = sets, !.after = after,
              !.pc = IF sets = <<>> THEN after ELSE "set",
              !.ret = IF sets = <<>> /\ after = "done" /\ r.err = NoErr
                      THEN r.typesInfo ELSE <<>>]

\* the key loop of ResolveAppend on what LoadOrCreateEntry returned with
\* exists = true
TakeEntryData(r, entryData) ==
    IF entryData.State = CacheEntryStateExists
    THEN NextKey([r EXCEPT !.typesInfo =
                     Append(r.typesInfo, TypeInfo(entryData.Key, entryData.Type))])
    ELSE IF entryData.State = CacheEntryStateLoading
    THEN NextKey([r EXCEPT !.entriesData = Append(r.entriesData, entryData)])
    ELSE ThenSets([r EXCEPT !.err = ErrUnexpectedCacheEntryState],
                  SetCalls(0, Len(r.entrySetters), CacheEntryStateError,
                           [j \in 1..Len(r.entrySetters) |-> TypeInfo("", LedisTypeNone)]),
                  "done")

\* the key loop of ResolveAppend on what LoadOrCreateEntry returned with
\* exists = false
TakeEntrySetter(r, entrySetter) ==
    NextKey([r EXCEPT !.entrySetters = Append(r.entrySetters, entrySetter)])

Upd(t, r) == task' = [task EXCEPT ![t] = r]

RECURSIVE SumLen(_)
SumLen(S) ==
    IF S = {} THEN 0
    ELSE LET t == CHOOSE u \in S : TRUE IN Len(task[t].keys) + SumLen(S \ {t})

KeysPassed == SumLen(Tasks)

\* the key LoadOrCreateEntry is called with
CurKey(t) == task[t].keys[task[t].ki]

\* a task calls ResolveAppend(typesInfo[:0], ctx, keys)
ResolveAppend(t, keys) ==
    /\ task[t].pc = "idle"
    /\ \A u \in Earlier(t) : task[u].pc # "idle"
    /\ KeysPassed + Len(keys) <= MaxKeys
    /\ Upd(t, [IdleTask EXCEPT !.pc = "load", !.keys = keys,
                               !.late = \E u \in Tasks : task[u].pc \in {"done", "panicked"}])
    /\ UNCHANGED <<entries, chans, closed, backend, notRes>>

\* two tasks call ResolveAppend with the same two keys in opposite orders
OpposedKeys(t) == IF t = "t1" THEN <<"x", "y">> ELSE <<"y", "x">>

ResolveAppendOpposed(t) ==
    /\ t \in {"t1", "t2"}
    /\ task[t].pc = "idle"
    /\ Upd(t, [IdleTask EXCEPT !.pc = "load", !.keys = OpposedKeys(t),
                               !.late = \E u \in Tasks : task[u].pc \in {"done", "panicked"}])
    /\ UNCHANGED <<entries, chans, closed, backend, notRes>>

\* prepareEntry under the read lock: the data of an entry that Exists or is
\* Loading, else on to the write lock.  The entry was found in the map by the
\* Load or LoadOrStore before; entries never leave the map, so that read
\* is taken in the same step.
prepareEntry(r, entry) ==
    IF IsExistsOrLoading(entry.State)
    THEN TakeEntryData(r, CacheEntryData(r.keys[r.ki], entry))
    ELSE [r EXCEPT !.pc = "prepW"]

\* LoadOrCreateEntry: c.loadEntry(key), and prepareEntry if it is found
loadEntry(t) ==
    /\ task[t].pc = "load"
    /\ Upd(t, IF entries[CurKey(t)].present
              THEN prepareEntry(task[t], entries[CurKey(t)])
              ELSE [task[t] EXCEPT !.pc = "store"])
    /\ UNCHANGED <<entries, chans, closed, backend, notRes>>

\* LoadOrCreateEntry after a miss: a Loading entry with a fresh channel goes
\* through LoadOrStore; stored, the caller owns the setter
LoadOrCreateEntry(t) ==
    /\ task[t].pc = "store"
    /\ LET doneLoading == chans + 1
           entry == cacheEntry(CacheEntryStateLoading, LedisTypeNone, doneLoading)
           res == LoadOrStore(entries, CurKey(t), entry)
       IN  IF res.loaded
           THEN /\ Upd(t, prepareEntry(task[t], res.actual))
                /\ UNCHANGED <<entries, chans, notRes>>
           ELSE /\ entries' = res.m
                /\ chans' = doneLoading
                /\ Upd(t, TakeEntrySetter(task[t], CacheEntrySetter(CurKey(t), doneLoading)))
    /\ UNCHANGED <<closed, backend, notRes>>

\* a prepareEntry that takes the write lock and does not check the state again
prepareEntryNoRecheck(t) ==
    /\ task[t].pc = "prepW"
    /\ entries' = [entries EXCEPT ![task[t].keys[task[t].ki]] =
                       cacheEntry(CacheEntryStateLoading, LedisTypeNone, chans + 1)]
    /\ chans' = chans + 1
    /\ task' = [task EXCEPT ![t] =
                   NextKey([task[t] EXCEPT !.entrySetters =
                       Append(task[t].entrySetters,
                              CacheEntrySetter(task[t].keys[task[t].ki], chans + 1))])]
    /\ UNCHANGED <<closed, backend, notRes>>

\* prepareEntry under the write lock: the state is checked again, an entry
\* neither Exists nor Loading becomes Loading with a fresh channel
prepareEntryLocked(t) ==
    /\ task[t].pc = "prepW"
    /\ LET entry == entries[CurKey(t)]
           doneLoading == chans + 1
       IN  IF IsExistsOrLoading(entry.State)
           THEN /\ Upd(t, TakeEntryData(task[t], CacheEntryData(CurKey(t), entry)))
                /\ UNCHANGED <<entries, chans, notRes>>
           ELSE /\ entries' = [entries EXCEPT ![CurKey(t)] =
                                  cacheEntry(CacheEntryStateLoading, LedisTypeNone, doneLoading)]
                /\ chans' = doneLoading
                /\ Upd(t, TakeEntrySetter(task[t], CacheEntrySetter(CurKey(t), doneLoading)))
    /\ UNCHANGED <<closed, backend, notRes>>

\* checkType: the keys that exist under checkType take it as their type
checked(typesInfo, ledisType) ==
    [j \in 1..Len(typesInfo) |->
        IF ledisType \in backend[typesInfo[j].Key]
        THEN TypeInfo(typesInfo[j].Key, ledisType)
        ELSE typesInfo[j]]

\* a round of activeResolve that is not the last and finds no key: no Set call
\* follows it, nothing shared is touched
FindsNone(typesInfo, round) ==
    /\ typesInfo # <<>>
    /\ round < Len(ledisTypes)
    /\ \A j \in 1..Len(typesInfo) : ledisTypes[round] \notin backend[typesInfo[j].Key]

\* the rounds from round on that find no key, up to round upto: each leaves
\* the two slices as its sort permutes them
RECURSIVE skipRounds(_, _, _, _)
skipRounds(typesInfo, entrySetters, round, upto) ==
    IF round < upto /\ FindsNone(typesInfo, round)
    THEN LET sorted == sortApartCoSortEntrySetters(typesInfo, entrySetters)
         IN  skipRounds(sorted.typesInfo, sorted.entrySetters, round + 1, upto)
    ELSE [typesInfo |-> typesInfo, entrySetters |-> entrySetters, round |-> round]

\* activeResolve from one checkType to the next Set call or to its return: the
\* rounds that find no key, then a round that fails, finds keys or is the
\* last, with its sort and the Set calls it leads to; the locals of the task
\* after each way this can go
activeResolve(r) ==
    LET n == Len(r.entrySetters)
        noneTypesInfo == SubSeq(r.typesInfo, r.abase + r.off + 1, r.abase + n)
        noneEntrySetters == SubSeq(r.entrySetters, r.off + 1, n)
        run == skipRounds(noneTypesInfo, noneEntrySetters, r.round, Len(ledisTypes))
        with(q, typesInfo, entrySetters) ==
            [q EXCEPT !.typesInfo = SubSeq(r.typesInfo, 1, r.abase + r.off) \o typesInfo,
                      !.entrySetters = SubSeq(r.entrySetters, 1, r.off) \o entrySetters,
                      !.probed = r.probed \/ n > r.off]
        \* Pool.GetContext, Send, Flush or Receive returned an error in round k
        failed(k) ==
            LET upto == skipRounds(noneTypesInfo, noneEntrySetters, r.round, k)
            IN  ThenSets(with([r EXCEPT !.err = ErrWire], upto.typesInfo, upto.entrySetters),
                         SetCalls(r.off, n - r.off, CacheEntryStateError, upto.typesInfo),
                         "done")
        sorted == sortApartCoSortEntrySetters(
                      checked(run.typesInfo, ledisTypes[run.round]), run.entrySetters)
        rest == n - r.off - sorted.noneBegin
        lastRound == run.round = Len(ledisTypes)
        sets == SetCalls(r.off, sorted.noneBegin, CacheEntryStateExists, sorted.typesInfo)
                \o (IF rest > 0 /\ lastRound
                    THEN SetCalls(r.off + sorted.noneBegin, rest, CacheEntryStateDeleted,
                                  SubSeq(sorted.typesInfo, sorted.noneBegin + 1,
                                         Len(sorted.typesInfo)))
                    ELSE <<>>)
        went == Local(ThenSets(
                    [with(r, sorted.typesInfo, sorted.entrySetters) EXCEPT
                        !.off = r.off + sorted.noneBegin,
                        !.round = run.round + 1,
                        !.dialed = TRUE],
                    sets,
                    IF rest = 0 \/ lastRound THEN "waitidx" ELSE "probe"))
    IN  {failed(k) : k \in r.round..run.round} \cup {went}

checkType(t) ==
    /\ task[t].pc = "probe"
    /\ \E q \in activeResolve(task[t]) : Upd(t, q)
    /\ UNCHANGED <<entries, chans, closed, backend, notRes>>

\* CacheEntrySetter.Set up to the Unlock: the entry is written under the
\* write lock; a setter whose doneLoading is nil panics
Set(t) ==
    /\ task[t].pc = "set"
    /\ LET r == task[t]
           call == Head(r.sets)
           setter == r.entrySetters[call.i]
       IN  IF setter.doneLoading = NilChan
           THEN /\ Upd(t, [r EXCEPT !.pc = "panicked"])
                /\ UNCHANGED entries
           ELSE /\ entries' = [entries EXCEPT ![setter.Key] =
                                  cacheEntry(call.state, StoredType(call.state, call.type),
                                             NilChan)]
                /\ Upd(t, [r EXCEPT !.entrySetters[call.i].set = TRUE, !.pc = "close"])
    /\ UNCHANGED <<chans, closed, backend, notRes>>

\* the rest of Set with the close left out
forgetDoneLoading(t) ==
    /\ task[t].pc = "close"
    /\ LET r == task[t]
           call == Head(r.sets)
       IN  Upd(t, Local([r EXCEPT !.entrySetters[call.i].doneLoading = NilChan,
                                  !.sets = Tail(r.sets),
                                  !.pc = IF Tail(r.sets) = <<>> THEN r.after ELSE "set"]))
    /\ UNCHANGED <<entries, chans, closed, backend, notRes>>

\* the rest of Set: close(c.doneLoading), c.doneLoading = nil; then the next
\* Set call of the task, or what follows the Set calls
closeDoneLoading(t) ==
    /\ task[t].pc = "close"
    /\ LET r == task[t]
           call == Head(r.sets)
       IN  /\ closed' = closed \cup {r.entrySetters[call.i].doneLoading}
           /\ Upd(t, Local([r EXCEPT !.entrySetters[call.i].doneLoading = NilChan,
                                      !.sets = Tail(r.sets),
                                      !.pc = IF Tail(r.sets) = <<>> THEN r.after ELSE "set"]))
    /\ UNCHANGED <<entries, chans, backend, notRes>>

\* waitResolve, case <-entryData.DoneLoading: Refresh, then by the state
waitResolve(t) ==
    /\ task[t].pc = "wait"
    /\ LET r == task[t]
           entryData == r.entriesData[r.wi]
           fresh == CacheEntryData(entryData.Key, entries[entryData.Key])
           typed(type) == [r EXCEPT !.typesInfo[r.wbase + r.wi].Type = type,
                                    !.wi = r.wi + 1]
           next(q) == IF q.wi > Len(q.entriesData)
                      THEN [q EXCEPT !.pc = "done", !.ret = q.typesInfo]
                      ELSE q
       IN  /\ entryData.DoneLoading \in closed
           /\ Upd(t, CASE fresh.State = CacheEntryStateExists -> next(typed(fresh.Type))
                       [] fresh.State = CacheEntryStateDeleted -> next(typed(LedisTypeNone))
                       [] fresh.State = CacheEntryStateError ->
                            [r EXCEPT !.pc = "done", !.err = ErrErrorCacheEntryState]
                       [] fresh.State = CacheEntryStateLoading ->
                            [r EXCEPT !.entriesData[r.wi] = fresh]
                       [] OTHER ->
                            [r EXCEPT !.pc = "done", !.err = ErrUnexpectedCacheEntryState])
    /\ UNCHANGED <<entries, chans, closed, backend, notRes>>

\* a case <-done that ends the wait without an error
waitResolveDoneNil(t) ==
    /\ task[t].pc = "wait"
    /\ task[t].cancelled
    /\ Upd(t, [task[t] EXCEPT !.pc = "done", !.ret = task[t].typesInfo])
    /\ UNCHANGED <<entries, chans, closed, backend, notRes>>

\* waitResolve, case <-done: return ctx.Err()
waitResolveDone(t) ==
    /\ task[t].pc = "wait"
    /\ task[t].cancelled
    /\ Upd(t, [task[t] EXCEPT !.pc = "done", !.err = ErrCanceled])
    /\ UNCHANGED <<entries, chans, closed, backend, notRes>>

\* the caller cancels the ctx; waitResolve is where ResolveAppend looks at it
Cancel(t) ==
    /\ task[t].pc = "wait"
    /\ ~task[t].cancelled
    /\ Upd(t, [task[t] EXCEPT !.cancelled = TRUE])
    /\ UNCHANGED <<entries, chans, closed, backend, notRes>>

\* a TrySetEntry that writes an entry whatever its state
TrySetEntryOverwrites(t, key, state, keyType) ==
    /\ task[t].pc = "idle"
    /\ entries' = [entries EXCEPT ![key] =
                       [present |-> TRUE, State |-> state, Type |-> keyType,
                        DoneLoading |-> 0]]
    /\ task' = [task EXCEPT ![t].pc = "done", ![t].keys = <<key>>,
                            ![t].trySet = [state |-> state, keyType |-> keyType,
                                           applied |-> TRUE]]
    /\ UNCHANGED <<chans, closed, backend, notRes>>

\* task t calls Cache.TrySetEntry, not ResolveAppend, with one of the three
\* states it accepts: the entry is put if the key has none, else trySetEntry
\* under the write lock leaves a Loading entry alone and overwrites any
\* other; trySet keeps the arguments and the bool returned.  Entries never leave the map, so the Load, the LoadOrStore and the
\* Lock are taken in one step.
TrySetEntry(t, key, state, keyType) ==
    /\ task[t].pc = "idle"
    /\ \A u \in Earlier(t) : task[u].pc # "idle"
    /\ KeysPassed + 1 <= MaxKeys
    /\ LET entry == cacheEntry(state, StoredType(state, keyType), NilChan)
           res == LoadOrStore(entries, key, entry)
       IN  IF ~res.loaded THEN entries' = res.m
           ELSE IF res.actual.State = CacheEntryStateLoading THEN UNCHANGED entries
           ELSE entries' = [entries EXCEPT ![key] = entry]
    /\ Upd(t, [IdleTask EXCEPT
                  !.pc = "done", !.keys = <<key>>,
                  !.trySet = [state |-> state, keyType |-> keyType,
                              applied |-> entries[key].State # CacheEntryStateLoading]])
    /\ UNCHANGED <<chans, closed, backend, notRes>>

\* the owner of a setter that is set calls Set on it once more
SetAgain(t) ==
    /\ task[t].pc = "done"
    /\ \E i \in 1..Len(task[t].entrySetters) :
           /\ task[t].entrySetters[i].set
           /\ Upd(t, [task[t] EXCEPT
                         !.pc = "set", !.after = "done",
                         !.sets = <<[i |-> i, state |-> CacheEntryStateExists,
                                     type |-> LedisTypeKV]>>])
    /\ UNCHANGED <<entries, chans, closed, backend, notRes>>

\* the steps of task t inside ResolveAppend
Step(t) ==
    \/ loadEntry(t)
    \/ LoadOrCreateEntry(t)
    \/ prepareEntryLocked(t)
    \/ checkType(t)
    \/ Set(t)
    \/ closeDoneLoading(t)
    \/ waitResolve(t)
    \/ waitResolveDone(t)

(***************************************************************************)
(* The primary pool and the SubPool (src/args.go, src/subpool.go)          *)
(***************************************************************************)
subPoolStateUninitialised == "Uninitialised"
subPoolStateInitialising == "Initialising"
subPoolStateInitialised == "Initialised"

Users == {"u1", "u2", "u3"}

\* a user that holds nothing and is in no call.  via: the call that took it
\* into the SubPool; primary: it holds a connection of the primary pool taken
\* as an application; sub: what its subPoolConn wraps; ctx: the ctx passed to
\* GetContext
IdleUser ==
    [pc |-> "idle", via |-> "none", primary |-> FALSE, sub |-> "nil", ctx |-> "none"]

SetUser(u, r) == user' = [user EXCEPT ![u] = r]

\* redis.Pool: whether a connection can be handed out under MaxActive
PoolHasRoom == poolMaxActive = 0 \/ poolActive < poolMaxActive

\* an application task takes a connection from the primary pool: Pool.Get
\* waits at the MaxActive limit when Wait is set, else it fails
PrimaryGet(u) ==
    /\ user[u].pc = "idle"
    /\ IF PoolHasRoom
       THEN /\ poolActive' = poolActive + 1
            /\ SetUser(u, [user[u] EXCEPT !.pc = "app", !.primary = TRUE])
       ELSE /\ ~poolWait
            /\ UNCHANGED <<poolActive, user>>
    /\ UNCHANGED <<poolMaxActive, poolWait, subMaxActive, subState, semCur, notPool>>

\* the application sends a command whose transform needs a connection of the
\* internal SubPool: the Resolver of a generic command calls GetContext with
\* a ctx that nobody cancels before it returns
TransformGetContext(u) ==
    /\ user[u].pc = "app"
    /\ SetUser(u, [user[u] EXCEPT !.pc = "lazyInit", !.via = "Transform", !.ctx = "live"])
    /\ UNCHANGED <<poolMaxActive, poolWait, poolActive, subMaxActive, subState, semCur,
                   notPool>>

\* SubPool.Get is called
SubPoolGet(u) ==
    /\ user[u].pc = "idle"
    /\ SetUser(u, [user[u] EXCEPT !.pc = "lazyInit", !.via = "Get", !.ctx = "none"])
    /\ UNCHANGED <<poolMaxActive, poolWait, poolActive, subMaxActive, subState, semCur,
                   notPool>>

\* SubPool.GetContext(ctx) is called
SubPoolGetContext(u) ==
    /\ user[u].pc = "idle"
    /\ SetUser(u, [user[u] EXCEPT !.pc = "lazyInit", !.via = "GetContext", !.ctx = "live"])
    /\ UNCHANGED <<poolMaxActive, poolWait, poolActive, subMaxActive, subState, semCur,
                   notPool>>

\* the caller of GetContext cancels its ctx while the call is running
CancelGetContext(u) ==
    /\ user[u].via = "GetContext"
    /\ user[u].ctx = "live"
    /\ user[u].pc \in {"lazyInit", "newWeighted", "Acquire", "PoolGet"}
    /\ SetUser(u, [user[u] EXCEPT !.ctx = "cancelled"])
    /\ UNCHANGED <<poolMaxActive, poolWait, poolActive, subMaxActive, subState, semCur,
                   notPool>>

\* lazyInit: initialised, go on; uninitialised, win the compare-and-swap; else
\* sleep and look again
lazyInit(u) ==
    /\ user[u].pc = "lazyInit"
    /\ IF subState = subPoolStateInitialised
       THEN /\ SetUser(u, [user[u] EXCEPT !.pc = "Acquire"])
            /\ UNCHANGED subState
       ELSE /\ subState = subPoolStateUninitialised
            /\ subState' = subPoolStateInitialising
            /\ SetUser(u, [user[u] EXCEPT !.pc = "newWeighted"])
    /\ UNCHANGED <<poolMaxActive, poolWait, poolActive, subMaxActive, semCur, notPool>>

\* lazyInit of the winner: semaphore.NewWeighted(MaxActive), state stored
newWeighted(u) ==
    /\ user[u].pc = "newWeighted"
    /\ semCur' = 0
    /\ subState' = subPoolStateInitialised
    /\ SetUser(u, [user[u] EXCEPT !.pc = "Acquire"])
    /\ UNCHANGED <<poolMaxActive, poolWait, poolActive, subMaxActive, notPool>>

\* s.semaphore.Acquire(ctx, 1), which GetContext calls when MaxActive is not 0
\* and Get always; its error is dropped.  A permit is taken when one is free;
\* with none free the call waits, and a cancelled ctx ends it with no permit
Acquire(u) ==
    /\ user[u].pc = "Acquire"
    /\ IF user[u].via # "Get" /\ subMaxActive = 0
       THEN UNCHANGED semCur
       ELSE \/ semCur < subMaxActive /\ semCur' = semCur + 1
            \/ user[u].ctx = "cancelled" /\ UNCHANGED semCur
    /\ SetUser(u, [user[u] EXCEPT !.pc = "PoolGet"])
    /\ UNCHANGED <<poolMaxActive, poolWait, poolActive, subMaxActive, subState, notPool>>

\* where a user goes when its call into the SubPool is over
Left(r) ==
    IF r.via = "Transform"
    THEN [r EXCEPT !.pc = "appClose", !.via = "none", !.sub = "nil", !.ctx = "none"]
    ELSE IdleUser

\* s.Pool.Get() and s.Pool.GetContext(ctx).  With room under MaxActive a
\* connection is handed out; the dial may fail; at the limit the call fails
\* without Wait and waits with it, until there is room or the ctx is done.
\* Get wraps what it got, a failed connection too; GetContext returns the error
PoolGet(u) ==
    /\ user[u].pc = "PoolGet"
    /\ \/ /\ PoolHasRoom
          /\ poolActive' = poolActive + 1
          /\ SetUser(u, [user[u] EXCEPT !.pc = "using", !.sub = "conn"])
       \/ /\ \/ PoolHasRoom
             \/ ~PoolHasRoom /\ ~poolWait
             \/ poolWait /\ user[u].ctx = "cancelled"
          /\ UNCHANGED poolActive
          /\ SetUser(u, IF user[u].via = "Get"
                        THEN [user[u] EXCEPT !.pc = "using", !.sub = "errorConn"]
                        ELSE Left(user[u]))
    /\ UNCHANGED <<poolMaxActive, poolWait, subMaxActive, subState, semCur, notPool>>

\* subPoolConn.Close: the wrapped connection is closed, a permit is released if
\* MaxActive is not 0; Release panics when no permit is held
subPoolConnClose(u) ==
    /\ user[u].pc = "using"
    /\ poolActive' = IF user[u].sub = "conn" THEN poolActive - 1 ELSE poolActive
    /\ IF subMaxActive # 0 /\ semCur = 0
       THEN /\ SetUser(u, [user[u] EXCEPT !.pc = "panicked", !.sub = "nil"])
            /\ UNCHANGED semCur
       ELSE /\ semCur' = IF subMaxActive # 0 THEN semCur - 1 ELSE semCur
            /\ SetUser(u, Left(user[u]))
    /\ UNCHANGED <<poolMaxActive, poolWait, subMaxActive, subState, notPool>>

\* the application is done with its command and closes its connection
PrimaryClose(u) ==
    /\ user[u].pc = "appClose"
    /\ poolActive' = poolActive - 1
    /\ SetUser(u, IdleUser)
    /\ UNCHANGED <<poolMaxActive, poolWait, subMaxActive, subState, semCur, notPool>>

(***************************************************************************)
(* Rewriter.Rewrite on one command, the SendLedisFunc it returns run       *)
(* against a wire, and Slot.ProcessFunc on the replies                     *)
(***************************************************************************)
IdleRewrite ==
    [pc |-> "idle", call |-> EmptyCall, command |-> RedisCommandFromName(""),
     resolved |-> [err |-> NoErr, typesInfo |-> <<>>], plan |-> NoPlan(NoErr),
     replies |-> <<>>, reduced |-> [err |-> NoErr, val |-> RNil]]

KeyArgs(n) == [i \in 1..n |-> ArgString(<<"a", "b", "c", "d", "e">>[i])]

\* the commands of SpecRewrite.  SET key value with up to MaxMods tail
\* modifiers, well-formed or not, and with PX around zero, around a whole
\* second and at the ends of int64; the bulk commands; ZADD with numeric and
\* with string scores, with and without flags
RewriteCalls ==
    LET set(tail) == [name |-> "SET", args |-> <<ArgString("k"), ArgString("v")>> \o tail]
        PXValues ==
            {I64(n) : n \in {-2000, -1000, -999, -1, 0, 1, 999, 1000, 1001, 1500}}
            \cup {MaxInt64, Add64(MaxInt64, I64(-998)), Add64(MaxInt64, I64(-999)),
                  MinInt64}
        SetModifiers ==
            {<<ArgString("PX"), ArgInt(1500)>>, <<ArgString("pX"), ArgString("1500")>>,
             <<ArgString("px"), ArgString("9223372036854775808")>>,
             <<ArgString("EX"), ArgInt(10)>>, <<ArgString("Ex"), ArgString("2")>>,
             <<ArgString("NX")>>, <<ArgString("nx")>>, <<ArgString("XX")>>,
             <<ArgString("xX")>>, <<ArgString("EX")>>, <<ArgString("KEEPTTL")>>,
             <<ArgInt(7)>>}
        Flatten(mods) ==
            LET flat[i \in 0..Len(mods)] ==
                    IF i = 0 THEN <<>> ELSE flat[i - 1] \o mods[i]
            IN  flat[Len(mods)]
        SetCommands ==
            {[name |-> "SET", args |-> <<ArgString("k")>>]}
            \cup {set(<<ArgString("PX"), ArgInt64(p)>>) : p \in PXValues}
            \cup {[set(<<ArgString("px"), ArgString(p)>>) EXCEPT !.name = "set"]
                  : p \in {"-1000", "9223372036854775807"}}
            \cup {set(Flatten(mods))
                  : mods \in UNION {[1..n -> SetModifiers] : n \in 0..MaxMods}}
        BulkCalls ==
            {[name |-> "DEL", args |-> KeyArgs(n)] : n \in 0..MaxBulkKeys}
            \cup {[name |-> "EXISTS", args |-> KeyArgs(1)],
                  [name |-> "exists", args |-> KeyArgs(2)],
                  [name |-> "EXPIRE", args |-> <<ArgString("a"), ArgInt(10)>>],
                  [name |-> "EXPIRE", args |-> KeyArgs(1)],
                  [name |-> "SORT", args |-> KeyArgs(1)]}
        ZaddCalls ==
            {[name |-> "ZADD", args |-> <<ArgString("k")>> \o tail] : tail \in
                {<<ArgInt(1), ArgString("a")>>,
                 <<ArgInt(1), ArgString("a"), ArgInt(2), ArgString("b")>>,
                 <<ArgInt(1), ArgInt(5), ArgInt(2), ArgInt(6)>>,
                 <<ArgString("1"), ArgString("a")>>,
                 <<ArgString("1"), ArgString("a"), ArgString("2"), ArgString("b")>>,
                 <<ArgInt(1)>>,
                 <<ArgInt(1), ArgString("a"), ArgInt(2)>>,
                 <<ArgString("XX"), ArgInt(1), ArgString("a")>>,
                 <<ArgString("nx"), ArgString("XX"), ArgInt(1), ArgString("a")>>,
                 <<ArgString("ch"), ArgInt(1), ArgString("a")>>,
                 <<ArgString("INCR"), ArgInt(1), ArgString("a")>>,
                 <<ArgString("incr"), ArgInt(1), ArgInt(5)>>,
                 <<ArgString("INCR"), ArgInt(1), ArgString("a"), ArgString("b")>>,
                 <<ArgString("XX"), ArgString("1"), ArgString("a")>>,
                 <<ArgString("ch"), ArgString("1"), ArgString("a")>>,
                 <<ArgString("NX"), ArgString("xX"), ArgString("1"), ArgString("a")>>,
                 <<ArgString("INCR"), ArgString("1"), ArgString("a")>>,
                 <<ArgString("INCR"), ArgString("1"), ArgString("a"), ArgString("b")>>,
                 <<ArgString("INCR"), ArgString("ch"), ArgInt(1), ArgString("a")>>,
                 <<ArgString("INCR")>>, <<ArgString("XX")>>}}
        RestoreCalls ==
            {[name |-> "RESTORE", args |-> <<ArgString("k")>> \o tail] : tail \in
                {<<ArgString("0"), ArgString("v")>>,
                 <<ArgInt(0), ArgString("v")>>,
                 <<ArgString("0"), ArgString("v"), ArgString("REPLACE")>>,
                 <<ArgString("1500"), ArgString("v"), ArgString("ABSTTL")>>,
                 <<ArgInt(1500), ArgString("v"), ArgString("replace"),
                   ArgString("absttl")>>,
                 <<ArgString("0"), ArgString("v"), ArgString("IDLETIME"), ArgInt(10),
                   ArgString("FREQ"), ArgInt(2)>>,
                 <<ArgString("replace"), ArgString("REPLACE")>>,
                 <<ArgString("ABSTTL"), ArgString("REPLACE")>>,
                 <<ArgString("IDLETIME"), ArgString("10"), ArgString("ABSTTL")>>,
                 <<ArgString("0"), ArgString("v"), ArgString("IDLETIME")>>,
                 <<ArgString("0")>>}}
    IN  SetCommands \cup BulkCalls \cup ZaddCalls \cup RestoreCalls
        \cup {[name |-> "GET", args |-> <<ArgString("k")>>],
              [name |-> "WATCH", args |-> <<ArgString("k")>>]}
        \cup {[name |-> n, args |-> <<>>] : n \in {"MULTI", "EXEC", "UNWATCH", "DISCARD"}}

\* what ResolveAppend may return for keys: an error, or a type for every key,
\* the keys in the order passed or, after a probe of all of them, with the keys
\* that exist nowhere swapped to the end
ResolvedAs(keys) ==
    IF keys = <<>> THEN {[err |-> NoErr, typesInfo |-> <<>>]}
    ELSE {[err |-> ErrErrorCacheEntryState, typesInfo |-> <<>>]}
         \cup UNION { LET typesInfo == [i \in 1..Len(keys) |-> TypeInfo(keys[i], f[i])]
                      IN  {[err |-> NoErr, typesInfo |-> typesInfo],
                           [err |-> NoErr,
                            typesInfo |-> sortApartCoSortEntrySetters(
                                              typesInfo, typesInfo).typesInfo]}
                    : f \in [1..Len(keys) -> LedisTypes] }

\* rewriter.Rewrite(call.name, call.args...) and the call of the SendLedisFunc
RewriteCall(call, resolved) ==
    /\ rw.pc = "idle"
    /\ LET command == RedisCommandFromName(call.name)
           plan == Rewrite(call.name, call.args, resolved)
       IN  rw' = [IdleRewrite EXCEPT !.pc = IF plan.err = NoErr THEN "sent" ELSE "failed",
                                     !.call = call, !.command = command,
                                     !.resolved = resolved, !.plan = plan]
    /\ UNCHANGED notRewrite

\* TypeSpecificBulkTransformer(config), for a configuration of the catalog, as
\* the TransformFunc of a command whose KeyExtractor is ArgsFromIndex(0)
BulkTransform(config, n, resolved) ==
    /\ rw.pc = "idle"
    /\ LET command == [Name |-> "BULK", Transform |-> "TypeSpecificBulk",
                       KeyExtractor |-> ArgsFromIndex(0), Config |-> config]
           call == [name |-> "BULK", args |-> KeyArgs(n)]
           plan == TypeSpecificBulkTransformer(config, command, call.args, resolved)
       IN  rw' = [IdleRewrite EXCEPT !.pc = IF plan.err = NoErr THEN "sent" ELSE "failed",
                                     !.call = call, !.command = command,
                                     !.resolved = resolved, !.plan = plan]
    /\ UNCHANGED notRewrite

\* the server answers every command written, slot.ProcessFunc reduces the replies
ProcessReplies(replies) ==
    /\ rw.pc = "sent"
    /\ Len(replies) = rw.plan.RepliesCount
    /\ rw' = [rw EXCEPT !.pc = "done", !.replies = replies,
                        !.reduced = ProcessFunc(rw.plan.fn, replies)]
    /\ UNCHANGED notRewrite

IdleConn ==
    /\ conn = "nil"
    /\ lerr = NoErr
    /\ slots = <<>>
    /\ wbuf = <<>>
    /\ owed = <<>>
    /\ timed = FALSE
    /\ last = Returned("WrapConn", NoErr)
    /\ nsent = 0
    /\ consumed = 0
    /\ sendLog = <<>>

EmptyCache ==
    /\ entries = [k \in Keys |-> NoEntry]
    /\ chans = 0
    /\ closed = {}
    /\ task = [t \in Tasks |-> IdleTask]

NoPools ==
    /\ poolMaxActive = 0
    /\ poolWait = FALSE
    /\ poolActive = 0
    /\ subMaxActive = 0
    /\ subState = subPoolStateUninitialised
    /\ semCur = 0
    /\ user = [u \in Users |-> IdleUser]

InitConn ==
    /\ EmptyCache
    /\ NoPools
    /\ rw = IdleRewrite
    /\ backend = [k \in Keys |-> {}]
    /\ conn = "open"
    /\ lerr = NoErr
    /\ slots = <<>>
    /\ wbuf = <<>>
    /\ owed = <<>>
    /\ timed \in BOOLEAN
    /\ last = Returned("WrapConn", NoErr)
    /\ nsent = 0
    /\ consumed = 0
    /\ sendLog = <<>>

NextConn ==
    \/ \E call \in ConnCalls : Send(call)
    \/ Flush
    \/ Receive
    \/ ReceiveWithTimeout
    \/ \E call \in ConnCalls \cup {EmptyCall} : Do(call)
    \/ \E call \in ConnCalls \cup {EmptyCall} : DoWithTimeout(call)
    \/ Close

SpecConn == InitConn /\ [][NextConn]_vars

InitResolver ==
    /\ IdleConn
    /\ NoPools
    /\ rw = IdleRewrite
    /\ EmptyCache
    /\ backend \in Backends

NextResolver ==
    \/ \E t \in Tasks, keys \in Batches : ResolveAppend(t, keys)
    \/ \E t \in Tasks : Step(t)
    \/ \E t \in Tasks : Cancel(t)

SpecResolver == InitResolver /\ [][NextResolver]_vars

NextOpposed ==
    \/ \E t \in Tasks : ResolveAppendOpposed(t)
    \/ \E t \in Tasks : Step(t)
    \/ \E t \in Tasks : Cancel(t)

SpecOpposed == InitResolver /\ [][NextOpposed]_vars

\* the scheduler runs a task that is about to close a channel in Set, and a
\* task whose select in waitResolve has a ready case; nothing else is assumed:
\* callers need not cancel, probes need not return
FairSpecResolver ==
    /\ SpecResolver
    /\ \A t \in Tasks : WF_vars(closeDoneLoading(t))
    /\ \A t \in Tasks : WF_vars(waitResolve(t) \/ waitResolveDone(t))

\* the cache with its other callers: tasks that call TrySetEntry with a state
\* and a type of their choice, and a second Set on a setter
NextCache ==
    \/ NextResolver
    \/ \E t \in Tasks, key \in Keys,
          call \in {<<CacheEntryStateExists, LedisTypeList>>,
                    <<CacheEntryStateDeleted, LedisTypeKV>>,
                    <<CacheEntryStateError, LedisTypeNone>>} :
           TrySetEntry(t, key, call[1], call[2])
    \/ \E t \in Tasks : SetAgain(t)

SpecCache == InitResolver /\ [][NextCache]_vars

\* NewPrimaryPool(config, internalMaxActive): a bounded primary pool with or
\* without Wait, and the SubPool on it
InitPool ==
    /\ IdleConn
    /\ EmptyCache
    /\ rw = IdleRewrite
    /\ backend = [k \in Keys |-> {}]
    /\ poolMaxActive \in 1..MaxPoolActive
    /\ poolWait \in BOOLEAN
    /\ poolActive = 0
    /\ subMaxActive \in 0..MaxSubActive
    /\ subState = subPoolStateUninitialised
    /\ semCur = 0
    /\ user = [u \in Users |-> IdleUser]

NextPool ==
    \/ \E u \in Users : PrimaryGet(u)
    \/ \E u \in Users : TransformGetContext(u)
    \/ \E u \in Users : SubPoolGet(u)
    \/ \E u \in Users : SubPoolGetContext(u)
    \/ \E u \in Users : CancelGetContext(u)
    \/ \E u \in Users : lazyInit(u)
    \/ \E u \in Users : newWeighted(u)
    \/ \E u \in Users : Acquire(u)
    \/ \E u \in Users : PoolGet(u)
    \/ \E u \in Users : subPoolConnClose(u)
    \/ \E u \in Users : PrimaryClose(u)

SpecPool == InitPool /\ [][NextPool]_vars

InitRewrite ==
    /\ IdleConn
    /\ EmptyCache
    /\ NoPools
    /\ backend = [k \in Keys |-> {}]
    /\ rw = IdleRewrite

NextRewrite ==
    \/ /\ rw.pc = "idle"
       /\ \E call \in RewriteCalls :
             \E resolved \in ResolvedAs(CommandKeys(RedisCommandFromName(call.name),
                                                      call.args)) :
                RewriteCall(call, resolved)
    \/ /\ rw.pc = "idle"
       /\ \E config \in {RedisCommandDEL.Config, RedisCommandEXISTS.Config,
                          RedisCommandSORT.Config}, n \in 1..MaxBulkKeys :
             \E resolved \in ResolvedAs([i \in 1..n |-> AsSimpleString(KeyArgs(n)[i])]) :
                BulkTransform(config, n, resolved)
    \/ /\ rw.pc = "sent"
       /\ \E replies \in [1..rw.plan.RepliesCount -> RawVals] : ProcessReplies(replies)

SpecRewrite == InitRewrite /\ [][NextRewrite]_vars

(***************************************************************************)
(* Properties of LedisConn, checked under SpecConn                         *)
(***************************************************************************)

ReceiveOps == {"Receive", "ReceiveWithTimeout"}
SendOps == {"Send", "Do", "DoWithTimeout"}

\* C1: a successful receive returns the slots in send order, and its value is
\* the reduce function of that send applied to exactly the raw replies of the
\* commands that send wrote (all of them, in order, none of another send),
\* whether the send wrote zero, one or several commands.
C1_ReceiveInSendOrder ==
    (last.op \in ReceiveOps /\ last.ret = NoErr) =>
        /\ last.sid = consumed
        /\ last.sid \in 1..Len(sendLog)
        /\ last.raw = [k \in 1..sendLog[last.sid].written |-> <<last.sid, k>>]
        /\ last.val = ProcessFunc(sendLog[last.sid].fn, last.vals).val

\* two sends, the first of two commands and the second of one, both received
C1_Witness ==
    /\ last.op = "Receive" /\ last.ret = NoErr
    /\ nsent = 2 /\ consumed = 2 /\ last.sid = 2
    /\ sendLog[1].written = 2 /\ sendLog[2].written = 1
    /\ Len(last.raw) = 1

\* the sum of RepliesCount over the queued slots
RECURSIVE SlotsOwe(_)
SlotsOwe(q) == IF q = <<>> THEN 0 ELSE Head(q).RepliesCount + SlotsOwe(Tail(q))

\* C2 (I1): while the connection is not terminal, the RepliesCount of the
\* queued slots add up to the raw replies the wire still owes: one per command
\* written and not yet read, flushed or not.
C2_SlotsMatchOwedReplies ==
    conn = "open" => SlotsOwe(slots) = Len(wbuf) + Len(owed)

\* two slots queued that owe three replies, all flushed
C2_Witness ==
    /\ conn = "open" /\ Len(slots) = 2
    /\ SlotsOwe(slots) = 3 /\ Len(owed) = 3 /\ wbuf = <<>>

\* C9 (as the code behaves): a fatal error closes the wire and stores the first
\* error; from then on the stored error never changes, Err() returns it, and
\* every operation fails with ErrConnClosed.
C9_TerminalFailsConnClosed ==
    [][ /\ (lerr' # NoErr => conn' = "nil" /\ Err' = lerr')
        /\ (lerr # NoErr => lerr' = lerr /\ conn' = "nil" /\ last'.ret = ErrConnClosed) ]_vars

\* a send called after a fatal wire error
C9_Witness ==
    /\ lerr = ErrWire /\ conn = "nil"
    /\ last.op = "Send" /\ last.ret = ErrConnClosed

\* C9 (as stated): once a fatal error is stored, every operation fails with
\* the stored error.
C9_Original ==
    [][lerr # NoErr => last'.ret = lerr]_vars

\* the errors a transformer function returns
TransformErrors ==
    {ErrNoEmulationPossible, ErrInvalidSyntax, ErrInvalidArgumentType,
     ErrInvalidArgumentCombination, ErrErrorCacheEntryState}

\* C10 (as the code behaves): when send or do returns the error of a transform,
\* nothing of that command was written and no slot was queued for it, and the
\* connection is terminal: err holds that error, the wire is closed and the
\* queued slots are dropped.
C10_TransformErrorIsFatal ==
    (last.op \in SendOps /\ last.ret \in TransformErrors) =>
        /\ lerr = last.ret
        /\ conn = "nil"
        /\ slots = <<>> /\ wbuf = <<>>
        /\ Len(sendLog) = nsent

\* a send whose transform failed, after one send that had queued a slot
C10_Witness ==
    /\ last.op = "Send" /\ last.ret = ErrNoEmulationPossible
    /\ nsent = 1 /\ consumed = 0

\* C10 (as stated): when send or do returns the error of a transform, err
\* stays unset and the wire stays open.
C10_Original ==
    (last.op \in SendOps /\ last.ret \in TransformErrors) =>
        (lerr = NoErr /\ conn = "open")

\* C11 (as the code behaves): a send of a command name that the catalog does
\* not hold, on an open connection, returns ErrUnknownRedisCommandName, writes
\* nothing and queues no slot, and is fatal: the error is stored, the wire is
\* closed and the slots that were queued are dropped.
C11_UnknownCommandDropsSlots ==
    [][(conn = "open" /\ last'.op = "Send" /\ last'.ret = ErrUnknownRedisCommandName) =>
           /\ slots' = <<>>
           /\ conn' = "nil" /\ lerr' = ErrUnknownRedisCommandName
           /\ nsent' = nsent /\ sendLog' = sendLog]_vars

\* a send of an unknown name after a send that had queued a slot of two replies
C11_Witness ==
    /\ last.op = "Send" /\ last.ret = ErrUnknownRedisCommandName
    /\ nsent = 1 /\ consumed = 0 /\ sendLog[1].written = 2
    /\ slots = <<>>

\* C11 (as stated): a send of a command name that the catalog does not hold
\* returns ErrUnknownRedisCommandName and leaves the slot queue as it was.
C11_Original ==
    [][(conn = "open" /\ last'.op = "Send" /\ last'.ret = ErrUnknownRedisCommandName) =>
           slots' = slots]_vars

DoOps == {"Do", "DoWithTimeout"}

\* C12: a do that succeeds leaves the slot queue empty, with nothing buffered
\* and no reply owed.  It has read and discarded exactly the replies that the
\* slots queued before it owed.  With a command name, what it returns is the
\* reduce function of its own slot applied to exactly the raw replies of the
\* commands it wrote; with the empty name it wrote nothing and returns nil.
C12_DoDrainsThenReduces ==
    [][(conn = "open" /\ last'.op \in DoOps /\ last'.ret = NoErr /\ last' # last) =>
           /\ slots' = <<>> /\ wbuf' = <<>> /\ owed' = <<>>
           /\ last'.drained = SlotsOwe(slots)
           /\ consumed' = nsent'
           /\ \/ /\ nsent' = nsent + 1
                 /\ last'.sid = nsent'
                 /\ last'.raw = [k \in 1..sendLog'[nsent'].written |-> <<nsent', k>>]
                 /\ last'.val = ProcessFunc(sendLog'[nsent'].fn, last'.vals).val
              \/ /\ nsent' = nsent /\ sendLog' = sendLog
                 /\ last'.raw = <<>> /\ last'.val = RNil]_vars

\* a do of one command that discarded the two replies owed to an earlier send
C12_Witness ==
    /\ last.op = "Do" /\ last.ret = NoErr
    /\ last.drained = 2 /\ last.sid = 2 /\ Len(last.raw) = 1
    /\ sendLog[1].written = 2

(***************************************************************************)
(* Properties of the Cache and the Resolver, checked under SpecResolver    *)
(* and FairSpecResolver                                                    *)
(***************************************************************************)

\* the type a key has for the resolver: the first type, in the order KV,
\* List, Hash, Set, ZSet, under which it exists in the backend, None if it
\* exists under no type
ResolvedType(k) ==
    IF LedisTypeKV \in backend[k] THEN LedisTypeKV
    ELSE IF LedisTypeList \in backend[k] THEN LedisTypeList
    ELSE IF LedisTypeHash \in backend[k] THEN LedisTypeHash
    ELSE IF LedisTypeSet \in backend[k] THEN LedisTypeSet
    ELSE IF LedisTypeZSet \in backend[k] THEN LedisTypeZSet
    ELSE LedisTypeNone

\* the positions of the slices of the tasks
Slots == Tasks \X (1..MaxKeys)

\* the LoadOrCreateEntry(k) calls that have returned
Calls(k) ==
    {p \in Slots : /\ p[2] < task[p[1]].ki
                   /\ p[2] <= Len(task[p[1]].keys)
                   /\ task[p[1]].keys[p[2]] = k}

\* the setters handed out for k, and those that Set has not written yet
Setters(k) ==
    {p \in Slots : /\ p[2] <= Len(task[p[1]].entrySetters)
                   /\ task[p[1]].entrySetters[p[2]].Key = k}
Uncompleted(k) == {p \in Setters(k) : ~task[p[1]].entrySetters[p[2]].set}

\* the Loading snapshots of k's entry that callers hold, with its channel
Snapshots(k) ==
    {p \in Slots : /\ p[2] <= Len(task[p[1]].entriesData)
                   /\ task[p[1]].entriesData[p[2]].Key = k
                   /\ task[p[1]].entriesData[p[2]].State = CacheEntryStateLoading
                   /\ task[p[1]].entriesData[p[2]].DoneLoading = entries[k].DoneLoading}

\* C3: for every key at most one setter is handed out and not yet set, and
\* the entry is Loading exactly while there is one; of the LoadOrCreateEntry
\* calls for a key that returned before any setter of the key was set, exactly
\* one got the setter and every other one a Loading snapshot of the entry.
C3_SingleFlight ==
    \A k \in Keys :
        /\ Cardinality(Uncompleted(k)) <= 1
        /\ entries[k].State = CacheEntryStateLoading <=> Cardinality(Uncompleted(k)) = 1
        /\ (Calls(k) # {} /\ Uncompleted(k) = Setters(k)) =>
               /\ Cardinality(Setters(k)) = 1
               /\ Cardinality(Snapshots(k)) = Cardinality(Calls(k)) - 1

\* three tasks have called LoadOrCreateEntry("x") and no setter is set yet
C3_Witness ==
    /\ \A t \in Tasks : task[t].keys = <<"x">> /\ task[t].ki = 2
    /\ Uncompleted("x") = Setters("x")
    /\ Cardinality(Snapshots("x")) = 2

\* C4 (as stated): however ResolveAppend ends, by return or by panic, every
\* setter it obtained has been set.
C4_Original ==
    \A t \in Tasks :
        task[t].pc \in {"done", "panicked"} =>
            \A i \in 1..Len(task[t].entrySetters) : task[t].entrySetters[i].set

\* task t waits in waitResolve for channel c
WaitsOn(t, c) ==
    /\ task[t].pc = "wait"
    /\ task[t].entriesData[task[t].wi].DoneLoading = c

\* Set has been called on the setter that holds channel c
SetCalled(c) ==
    \E p \in Slots :
        /\ p[2] <= Len(task[p[1]].entrySetters)
        /\ task[p[1]].entrySetters[p[2]].ch = c
        /\ task[p[1]].entrySetters[p[2]].set

\* task t waits for a channel although the channel's setter has been set or
\* the ctx of t is cancelled
WaitsStill(t) ==
    \E c \in 1..MaxKeys : WaitsOn(t, c) /\ (SetCalled(c) \/ task[t].cancelled)

\* C5: a call waiting for the channel of a Loading entry stops waiting for it
\* only if the entry's setter has been set or the call's ctx is cancelled,
\* and once one of the two is the case it does stop: it is never from some
\* point on forever waiting for a channel whose setter is set, or with its
\* ctx cancelled.
C5_WaitersStop ==
    /\ [][\A t \in Tasks, c \in 1..MaxKeys :
            (WaitsOn(t, c) /\ ~WaitsOn(t, c)') => (SetCalled(c) \/ task[t].cancelled)]_vars
    /\ \A t \in Tasks : []<>~WaitsStill(t)

\* a call that waited for an entry has returned its type, with no cancel
C5_Witness ==
    \E t \in Tasks :
        /\ task[t].pc = "done" /\ task[t].err = NoErr /\ ~task[t].cancelled
        /\ Len(task[t].entriesData) = 1
        /\ SetCalled(task[t].entriesData[1].DoneLoading)

\* three overlapping calls ResolveAppend(["x"]) have returned without error
ThreeCallsReturned ==
    \A t \in Tasks :
        /\ task[t].keys = <<"x">> /\ task[t].pc = "done"
        /\ ~task[t].late /\ task[t].err = NoErr

RECURSIVE Picked(_, _, _, _)
Picked(keys, f, c, i) ==
    IF i > Len(keys) THEN <<>>
    ELSE (IF f[i] = c THEN <<keys[i]>> ELSE <<>>) \o Picked(keys, f, c, i + 1)

\* the typesInfo that task t returned lists its keys as: the keys it found in
\* the cache, then the keys it got a setter for, then the keys it waited for,
\* each group in the order of the input
InInputOrder(t) ==
    LET r == task[t]
    IN  \E f \in [1..Len(r.keys) -> {"hit", "probed", "waited"}] :
            /\ [i \in 1..Len(r.ret) |-> r.ret[i].Key]
                  = Picked(r.keys, f, "hit", 1) \o Picked(r.keys, f, "probed", 1)
                    \o Picked(r.keys, f, "waited", 1)
            /\ Len(Picked(r.keys, f, "hit", 1)) = r.abase
            /\ Len(Picked(r.keys, f, "probed", 1)) = Len(r.entrySetters)
            /\ Len(Picked(r.keys, f, "waited", 1)) = Len(r.entriesData)

\* C13 (as stated): what a successful ResolveAppend returns is the cache hits
\* in input order, then the results of the keys it probed in input order,
\* then the results of the keys it waited for in input order.
C13_Original ==
    \A t \in Tasks :
        (task[t].pc = "done" /\ task[t].err = NoErr) => InInputOrder(t)

(***************************************************************************)
(* Properties of the pools, checked under SpecPool                         *)
(***************************************************************************)

\* an application that holds a connection of the primary pool and cannot go
\* on in the SubPool call of its command: no permit is free, or the primary
\* pool is at its limit and waits
BlockedInTransform(u) ==
    /\ user[u].primary /\ user[u].via = "Transform"
    /\ \/ user[u].pc = "Acquire" /\ subMaxActive # 0 /\ semCur >= subMaxActive
       \/ user[u].pc = "PoolGet" /\ poolWait /\ ~PoolHasRoom

\* C7 (as stated): with a bounded primary pool that waits, the connections of
\* the pool are never all held by applications that are each blocked waiting
\* for a connection of the SubPool.
C7_Original ==
    poolWait =>
        Cardinality({u \in Users : BlockedInTransform(u)}) < poolMaxActive

\* the connections the SubPool has handed out that are not closed
Outstanding == {u \in Users : user[u].sub = "conn"}

\* C8 (as stated): a SubPool with MaxActive = M > 0 never has more than M
\* connections handed out and not closed.
C8_Original ==
    subMaxActive > 0 => Cardinality(Outstanding) <= subMaxActive

(***************************************************************************)
(* Properties of the transformers, checked under SpecRewrite               *)
(***************************************************************************)

\* the command went through the catalog under this name and was sent
SentAs(name) ==
    /\ rw.pc \in {"sent", "done"}
    /\ rw.call.name # "BULK"
    /\ ToUpper(rw.call.name) = name

TypeOrder ==
    <<LedisTypeNone, LedisTypeKV, LedisTypeList, LedisTypeHash, LedisTypeSet,
      LedisTypeZSet>>

\* the keys of the command that the resolver reported with this type
ResolvedTo(ledisType) ==
    {rw.resolved.typesInfo[i].Key : i \in {j \in 1..Len(rw.resolved.typesInfo) :
                                            rw.resolved.typesInfo[j].Type = ledisType}}

ArgStrings(cmd) == {cmd.args[i].s : i \in 1..Len(cmd.args)}

DelCommandFor(ledisType) ==
    CASE ledisType = LedisTypeKV -> "DEL"
      [] ledisType = LedisTypeList -> "LMCLEAR"
      [] ledisType = LedisTypeHash -> "HMCLEAR"
      [] ledisType = LedisTypeSet -> "SMCLEAR"
      [] ledisType = LedisTypeZSet -> "ZMCLEAR"
      [] OTHER -> ""

RECURSIVE IntSum(_)
IntSum(replies) ==
    IF replies = <<>> THEN 0 ELSE Head(replies).n + IntSum(Tail(replies))

\* C14: the plan of DEL k1..kn is, in the order None, KV, List, Hash, Set,
\* ZSet, one command per type that some key resolved to (DEL, LMCLEAR,
\* HMCLEAR, SMCLEAR, ZMCLEAR), with exactly the keys of that type as its
\* arguments; a key that resolved to None is in no command; integer replies
\* reduce to their sum.
C14_DelPlan ==
    SentAs("DEL") =>
        LET binned == SelectSeq(TypeOrder, LAMBDA ty :
                          ty # LedisTypeNone /\ ResolvedTo(ty) # {})
            cmds == rw.plan.cmds
        IN  /\ Len(cmds) = Len(binned)
            /\ rw.plan.RepliesCount = Len(binned)
            /\ \A j \in 1..Len(binned) :
                   /\ cmds[j].name = DelCommandFor(binned[j])
                   /\ ArgStrings(cmds[j]) = ResolvedTo(binned[j])
                   /\ Len(cmds[j].args) = Cardinality(ResolvedTo(binned[j]))
                   /\ \A i \in 1..Len(cmds[j].args) : cmds[j].args[i].t = "string"
            /\ \A j \in 1..Len(cmds) : ArgStrings(cmds[j]) \cap ResolvedTo(LedisTypeNone) = {}
            /\ (rw.pc = "done" /\ \A i \in 1..Len(rw.replies) : rw.replies[i].kind = "int")
                   => rw.reduced = [err |-> NoErr, val |-> RInt(IntSum(rw.replies))]

\* DEL a b c with a a KV key, b a list and c missing: DEL a and LMCLEAR b,
\* replies 1 and 1 reduced to 2
C14_Witness ==
    /\ rw.pc = "done"
    /\ rw.call = [name |-> "DEL", args |-> KeyArgs(3)]
    /\ rw.resolved.typesInfo = <<TypeInfo("a", LedisTypeKV), TypeInfo("b", LedisTypeList),
                                 TypeInfo("c", LedisTypeNone)>>
    /\ rw.plan.cmds = <<Cmd("DEL", <<ArgString("a")>>), Cmd("LMCLEAR", <<ArgString("b")>>)>>
    /\ rw.replies = <<RInt(1), RInt(1)>>
    /\ rw.reduced.val = RInt(2)

\* C15 (as stated): every key argument of a sent EXISTS is resolved, and every
\* one that exists under some type is probed by a command of its own and
\* counted in the number of replies.
C15_Original ==
    SentAs("EXISTS") =>
        /\ \A i \in 1..Len(rw.call.args) :
               \E ty \in LedisTypes :
                  /\ rw.call.args[i].s \in ResolvedTo(ty)
                  /\ ty # LedisTypeNone =>
                         \E j \in 1..Len(rw.plan.cmds) :
                            rw.plan.cmds[j].args = <<rw.call.args[i]>>
        /\ rw.plan.RepliesCount
              = Cardinality({i \in 1..Len(rw.call.args) :
                                rw.call.args[i].s \notin ResolvedTo(LedisTypeNone)})

\* a type-specific bulk transform returned a plan
BulkSent ==
    /\ rw.pc \in {"sent", "done"}
    /\ rw.command.Transform = "TypeSpecificBulk"

\* the positions of the resolved keys whose type has a command configured
InNamedBins ==
    {i \in 1..Len(rw.resolved.typesInfo) :
        rw.command.Config.Commands[rw.resolved.typesInfo[i].Type] # ""}

\* C16 (P5): the RepliesCount of the slot of a type-specific bulk transform is
\* the number of types that have a command name and at least one key when
\* Debulk is false, the number of keys of such types when Debulk is true, and
\* in both cases the number of commands written.
C16_RepliesCount ==
    BulkSent =>
        /\ rw.plan.RepliesCount
              = IF rw.command.Config.Debulk
                THEN Cardinality(InNamedBins)
                ELSE Cardinality({rw.resolved.typesInfo[i].Type : i \in InNamedBins})
        /\ rw.plan.RepliesCount = Len(rw.plan.cmds)

\* three keys, two hashes and a missing one, under the configuration of
\* EXISTS: two commands, two replies
C16_Witness ==
    /\ BulkSent
    /\ rw.command.Config = RedisCommandEXISTS.Config
    /\ rw.resolved.typesInfo = <<TypeInfo("a", LedisTypeHash), TypeInfo("b", LedisTypeHash),
                                 TypeInfo("c", LedisTypeNone)>>
    /\ rw.plan.RepliesCount = 2
    /\ rw.plan.cmds = <<Cmd("HKEYEXISTS", <<ArgString("a")>>),
                        Cmd("HKEYEXISTS", <<ArgString("b")>>)>>

\* SET key value followed by modifiers went through SetCommandTransformer
SetRewritten ==
    /\ rw.pc # "idle"
    /\ ToUpper(rw.call.name) = "SET"
    /\ Len(rw.call.args) >= 2

\* the modifier kw is among the arguments after key and value
HasModifier(kw) ==
    \E i \in 3..Len(rw.call.args) :
        rw.call.args[i].t = "string" /\ ToUpper(rw.call.args[i].s) = kw

\* an integer, or a string that is the decimal form of an int64
IsInt64Value(a) ==
    \/ a.t = "int"
    \/ a.t = "string"
       /\ a.s \in {"0", "1", "2", "10", "1500", "-1000", "9223372036854775807"}

\* the arguments from position i on are modifiers: NX, XX, EX n or PX n
RECURSIVE ModifiersFrom(_, _)
ModifiersFrom(args, i) ==
    IF i > Len(args) THEN TRUE
    ELSE IF args[i].t # "string" THEN FALSE
    ELSE IF ToUpper(args[i].s) \in {"NX", "XX"} THEN ModifiersFrom(args, i + 1)
    ELSE IF ToUpper(args[i].s) \in {"EX", "PX"}
    THEN i + 1 <= Len(args) /\ IsInt64Value(args[i + 1]) /\ ModifiersFrom(args, i + 2)
    ELSE FALSE

Rejected(err) ==
    /\ rw.pc = "failed"
    /\ rw.plan.err = err
    /\ rw.plan.cmds = <<>>

Int64Of(a) ==
    IF a.t = "int" THEN a.n
    ELSE CASE a.s = "0" -> I64(0) [] a.s = "1" -> I64(1) [] a.s = "2" -> I64(2)
           [] a.s = "10" -> I64(10) [] a.s = "1500" -> I64(1500)
           [] a.s = "-1000" -> I64(-1000)
           [] OTHER -> MaxInt64

\* the value that follows the last occurrence of the modifier kw
LastValue(kw) ==
    LET at == {i \in 3..Len(rw.call.args) :
                  rw.call.args[i].t = "string" /\ ToUpper(rw.call.args[i].s) = kw}
        i == CHOOSE j \in at : \A k \in at : k <= j
    IN  Int64Of(rw.call.args[i + 1])

SetAccepted == SetRewritten /\ rw.pc \in {"sent", "done"}

\* C18: an accepted SET with NX sends SETNX key value, then EXPIRE key
\* seconds if and only if EX or PX was given, and reduces the reply 1 of
\* SETNX to "OK" and any other to nil; with EX or PX and no NX it sends
\* SETEX key seconds value and nothing else; with none of them it sends SET
\* key value and nothing else, and returns the reply as it came.  With EX the
\* seconds are the value of EX.
C18_SetEmission ==
    SetAccepted =>
        LET key == rw.call.args[1]
            value == rw.call.args[2]
            expiry == HasModifier("EX") \/ HasModifier("PX")
            cmds == rw.plan.cmds
            seconds(a) == /\ a.t = "int"
                          /\ HasModifier("EX") => a.n = LastValue("EX")
        IN  /\ rw.plan.RepliesCount = Len(cmds)
            /\ HasModifier("NX") =>
                   /\ cmds[1] = Cmd("SETNX", <<key, value>>)
                   /\ Len(cmds) = IF expiry THEN 2 ELSE 1
                   /\ expiry => /\ cmds[2].name = "EXPIRE"
                                /\ Len(cmds[2].args) = 2
                                /\ cmds[2].args[1] = key
                                /\ seconds(cmds[2].args[2])
                   /\ rw.pc = "done" =>
                          /\ rw.reduced.val = IF rw.replies[1] = RInt(1) THEN ROK ELSE RNil
                          /\ rw.replies[1].kind = "int" => rw.reduced.err = NoErr
            /\ (~HasModifier("NX") /\ expiry) =>
                   /\ Len(cmds) = 1
                   /\ cmds[1].name = "SETEX"
                   /\ Len(cmds[1].args) = 3
                   /\ cmds[1].args[1] = key
                   /\ seconds(cmds[1].args[2])
                   /\ cmds[1].args[3] = value
            /\ (~HasModifier("NX") /\ ~expiry) =>
                   /\ cmds = <<Cmd("SET", <<key, value>>)>>
                   /\ rw.pc = "done" =>
                          rw.reduced = [err |-> NoErr, val |-> rw.replies[1]]

\* SET k v nx Ex "2": SETNX k v and EXPIRE k 2, replies 1 and 1 reduced to "OK"
C18_Witness ==
    /\ SetAccepted /\ rw.pc = "done"
    /\ rw.call.args = <<ArgString("k"), ArgString("v"), ArgString("nx"),
                        ArgString("Ex"), ArgString("2")>>
    /\ rw.plan.cmds = <<Cmd("SETNX", <<ArgString("k"), ArgString("v")>>),
                        Cmd("EXPIRE", <<ArgString("k"), ArgInt(2)>>)>>
    /\ rw.replies = <<RInt(1), RInt(1)>>
    /\ rw.reduced.val = ROK

\* the ceiling of x / 1000
Ceil1000(x) ==
    LET q == Tail(x.mag) \o <<0>>
    IN  IF x.neg THEN [neg |-> q # I64(0).mag, mag |-> q]
        ELSE IF x.mag[1] = 0 THEN [neg |-> FALSE, mag |-> q]
        ELSE [neg |-> FALSE, mag |-> MagAdd(q, I64(1).mag)]

\* C19 (as stated, P7): an accepted SET with PX p and no EX that sends SETEX
\* gives it the ceiling of p / 1000 as its seconds, for every int64 p.
C19_Original ==
    (SetAccepted /\ HasModifier("PX") /\ ~HasModifier("EX") /\ ~HasModifier("NX")) =>
        /\ rw.plan.cmds[1].name = "SETEX"
        /\ rw.plan.cmds[1].args[2] = ArgInt64(Ceil1000(LastValue("PX")))

ZaddFlags == {"NX", "XX", "CH", "INCR"}

\* ZADD key s1 m1 ... sn mn with n >= 1 and no flag among the arguments
ZaddWithoutFlags ==
    /\ rw.pc # "idle"
    /\ ToUpper(rw.call.name) = "ZADD"
    /\ Len(rw.call.args) >= 3
    /\ Len(rw.call.args) % 2 = 1
    /\ \A i \in 2..Len(rw.call.args) :
           rw.call.args[i].t = "string" => ToUpper(rw.call.args[i].s) \notin ZaddFlags

\* C20 (as stated): ZADD without flags is accepted, whether its scores and
\* members are numbers or strings, and sends the one command ZADD with key,
\* s1, m1, ..., sn, mn as separate arguments in the order given.
C20_Original ==
    ZaddWithoutFlags =>
        /\ rw.pc \in {"sent", "done"}
        /\ rw.plan.cmds = <<Cmd("ZADD", rw.call.args)>>

ZaddRewritten == rw.pc # "idle" /\ ToUpper(rw.call.name) = "ZADD"

IsZaddFlag(a) == a.t = "string" /\ ToUpper(a.s) \in ZaddFlags

\* the number of leading flags of ZADD: the arguments after the key up to the
\* first one that is not NX, XX, CH or INCR
RECURSIVE LeadingFlags(_, _)
LeadingFlags(args, i) ==
    IF i > Len(args) \/ ~IsZaddFlag(args[i]) THEN 0
    ELSE 1 + LeadingFlags(args, i + 1)

ZaddHasFlag(kw) ==
    \E i \in 2..(1 + LeadingFlags(rw.call.args, 2)) : ToUpper(rw.call.args[i].s) = kw

\* what follows the key and the leading flags
ZaddTail ==
    SubSeq(rw.call.args, 2 + LeadingFlags(rw.call.args, 2), Len(rw.call.args))

\* C21 (as stated): only leading NX, XX, CH, INCR count as flags of ZADD, so
\* with score/member pairs after them, numbers or strings, XX with NX is
\* rejected with ErrInvalidArgumentCombination and XX, NX or CH alone with
\* ErrNoEmulationPossible.
C21_Original ==
    (ZaddRewritten /\ Len(ZaddTail) >= 2 /\ Len(ZaddTail) % 2 = 0) =>
        /\ (ZaddHasFlag("XX") /\ ZaddHasFlag("NX"))
              => Rejected(ErrInvalidArgumentCombination)
        /\ ((ZaddHasFlag("XX") \/ ZaddHasFlag("NX") \/ ZaddHasFlag("CH"))
              /\ ~(ZaddHasFlag("XX") /\ ZaddHasFlag("NX")))
              => Rejected(ErrNoEmulationPossible)

\* C22 (as stated): ZADD with INCR and none of XX, NX, CH sends ZINCRBY key
\* score member when exactly one pair follows the flags, and is rejected with
\* ErrInvalidSyntax, nothing sent, when anything else follows them.
C22_Original ==
    (ZaddRewritten /\ ZaddHasFlag("INCR")
       /\ ~(ZaddHasFlag("XX") \/ ZaddHasFlag("NX") \/ ZaddHasFlag("CH"))) =>
        IF Len(ZaddTail) = 2
        THEN /\ rw.pc \in {"sent", "done"}
             /\ rw.plan.cmds = <<Cmd("ZINCRBY", <<rw.call.args[1]>> \o ZaddTail)>>
        ELSE Rejected(ErrInvalidSyntax)

\* C23 (as stated): WATCH, UNWATCH, MULTI and EXEC are accepted, write
\* nothing and give a slot of zero replies that reduces to nil; DISCARD is
\* rejected with ErrNoEmulationPossible.
C23_Original ==
    rw.pc # "idle" =>
        /\ rw.call.name \in {"WATCH", "UNWATCH", "MULTI", "EXEC"} =>
               /\ rw.pc \in {"sent", "done"}
               /\ rw.plan.cmds = <<>>
               /\ rw.plan.RepliesCount = 0
               /\ rw.pc = "done" => rw.reduced = [err |-> NoErr, val |-> RNil]
        /\ rw.call.name = "DISCARD" => Rejected(ErrNoEmulationPossible)

\* how often key k occurs among the keys of a sequence of keys
RECURSIVE Occurs(_, _)
Occurs(keys, k) ==
    IF keys = <<>> THEN 0
    ELSE (IF Head(keys) = k THEN 1 ELSE 0) + Occurs(Tail(keys), k)

KeysOf(typesInfo) == [i \in 1..Len(typesInfo) |-> typesInfo[i].Key]

\* task t has returned from ResolveAppend without error
Succeeded(t) == task[t].pc = "done" /\ task[t].err = NoErr

\* C24: a ResolveAppend that returns without error has appended one TypeInfo
\* per input key, so each key occurs in the result as often as in the input,
\* and each TypeInfo carries the type of its own key in the backend (None for
\* a missing key).
C24_OnePairPerKey ==
    \A t \in Tasks :
        Succeeded(t) =>
            /\ Len(task[t].ret) = Len(task[t].keys)
            /\ \A k \in Keys : Occurs(KeysOf(task[t].ret), k) = Occurs(task[t].keys, k)
            /\ \A i \in 1..Len(task[t].ret) :
                   task[t].ret[i].Type = ResolvedType(task[t].ret[i].Key)

\* a call for x and y, x missing and y a KV key, has probed both and returned
\* them apart-sorted: y with its type first, x with None last
C24_Witness ==
    \E t \in Tasks :
        /\ Succeeded(t)
        /\ task[t].keys = <<"x", "y">>
        /\ Len(task[t].entrySetters) = 2
        /\ task[t].ret = <<TypeInfo("y", LedisTypeKV), TypeInfo("x", LedisTypeNone)>>

\* C25: in active probing without failure each Set call goes to the setter of
\* the key whose TypeInfo stands at the same position; a key that exists is
\* set to Exists with the first type, in the order KV, List, Hash, Set, ZSet,
\* under which it exists, in the round of that type, and the entry then holds
\* this state and type; a key is set to Deleted, type None, only after all
\* five rounds and only if it exists under no type.  A round probes exactly
\* the keys whose setters are not set yet, none of which was found by an
\* earlier round.
C25_ProbeOutcome ==
    \A t \in Tasks :
        LET r == task[t]
            n == Len(r.entrySetters)
        IN  /\ (r.pc \in {"set", "close"} /\ r.err = NoErr) =>
                   \A j \in 1..Len(r.sets) :
                       LET call == r.sets[j]
                           k == r.entrySetters[call.i].Key
                       IN  /\ r.typesInfo[r.abase + call.i].Key = k
                           /\ IF ResolvedType(k) # LedisTypeNone
                              THEN /\ call.state = CacheEntryStateExists
                                   /\ call.type = ResolvedType(k)
                                   /\ call.type = ledisTypes[r.round - 1]
                              ELSE /\ call.state = CacheEntryStateDeleted
                                   /\ r.round = Len(ledisTypes) + 1
            /\ (r.pc = "close" /\ r.err = NoErr
                  /\ Head(r.sets).state = CacheEntryStateExists) =>
                   LET k == r.entrySetters[Head(r.sets).i].Key
                   IN  entries[k] =
                           cacheEntry(CacheEntryStateExists, ResolvedType(k), NilChan)
            /\ r.pc = "probe" =>
                   \A i \in 1..n :
                       /\ r.entrySetters[i].set <=> i <= r.off
                       /\ i > r.off =>
                              /\ r.typesInfo[r.abase + i] =
                                     TypeInfo(r.entrySetters[i].Key, LedisTypeNone)
                              /\ \A q \in 1..(r.round - 1) :
                                     ledisTypes[q] \notin backend[r.entrySetters[i].Key]

\* a call has probed x and y, x a list and a sorted set at once and y a KV key:
\* y was found in the first round and x in the second, as a list
C25_Witness ==
    \E t \in Tasks :
        /\ Succeeded(t)
        /\ backend["x"] = {LedisTypeList, LedisTypeZSet}
        /\ Len(task[t].entrySetters) = 2
        /\ task[t].round = 3
        /\ entries["x"] = cacheEntry(CacheEntryStateExists, LedisTypeList, NilChan)

\* a check round of task t has failed
RoundFailed(t) == task[t].err = ErrWire

\* the key of setter i of task t
SetterKey(t, i) == task[t].entrySetters[i].Key

\* C26, what holds in every state after a check round of a call has failed:
\* the call returns the error and no TypeInfo; the setters set before the
\* round are those of the keys found in earlier rounds, whose entries keep
\* Exists and their type; the Set calls left to make are
\* Set(CacheEntryStateError) on each setter not set yet, and when the call
\* returns every setter is set.
C26_AfterFailure ==
    \A t \in Tasks :
        LET r == task[t]
            n == Len(r.entrySetters)
        IN  RoundFailed(t) =>
                /\ r.pc \in {"set", "close", "done"}
                /\ r.ret = <<>>
                /\ \A i \in 1..r.off :
                       /\ r.entrySetters[i].set
                       /\ entries[SetterKey(t, i)] =
                              cacheEntry(CacheEntryStateExists,
                                         ResolvedType(SetterKey(t, i)), NilChan)
                /\ \A j \in 1..Len(r.sets) :
                       /\ r.sets[j].state = CacheEntryStateError
                       /\ r.sets[j].i = n - Len(r.sets) + j
                /\ \A i \in (r.off + 1)..n :
                       r.entrySetters[i].set <=>
                           (i < n - Len(r.sets) + 1 \/ (i = n - Len(r.sets) + 1 /\ r.pc = "close"))
                /\ r.pc = "done" => \A i \in 1..n : r.entrySetters[i].set

\* C26, the steps after a failed round: each Set writes Error with type None
\* to the entry of a key of the failed round, and no step of the failed call
\* writes Exists.
C26_FailureSteps ==
    \A t \in Tasks :
        (RoundFailed(t) /\ task[t].pc = "set" /\ task'[t].pc = "close") =>
            LET k == SetterKey(t, Head(task[t].sets).i)
            IN  /\ entries'[k] = cacheEntry(CacheEntryStateError, LedisTypeNone, NilChan)
                /\ \A o \in Keys \ {k} : entries'[o] = entries[o]

\* C26: when a check round fails, every owned setter not yet set is set to
\* Error and the error is returned; the entries published as Exists in
\* earlier rounds keep that state and type, and no key of the failing round
\* is published as Exists.
C26_ErrorPolicy == []C26_AfterFailure /\ [][C26_FailureSteps]_vars

\* a call for x and y has found y in the first round, its second round has
\* failed and it has returned: y Exists as a KV key, x is set to Error
C26_Witness ==
    \E t \in Tasks :
        /\ RoundFailed(t) /\ task[t].pc = "done"
        /\ task[t].off = 1 /\ Len(task[t].entrySetters) = 2
        /\ entries["y"] = cacheEntry(CacheEntryStateExists, LedisTypeKV, NilChan)
        /\ entries["x"] = cacheEntry(CacheEntryStateError, LedisTypeNone, NilChan)

\* every setter task t owns has been set and its channel closed
SettersCompleted(t) ==
    \A i \in 1..Len(task[t].entrySetters) :
        /\ task[t].entrySetters[i].set
        /\ task[t].entrySetters[i].ch \in closed

\* C27, the states: a call that waits in waitResolve, or has returned the
\* ctx error from it, was cancelled if it returned that error, returns no
\* TypeInfo with it, and has completed every setter it owns, so no entry it
\* owns is Loading.
C27_CancelledStates ==
    \A t \in Tasks :
        /\ task[t].pc = "wait" => SettersCompleted(t)
        /\ task[t].err = ErrCanceled =>
               /\ task[t].pc = "done" /\ task[t].cancelled
               /\ task[t].ret = <<>>
               /\ SettersCompleted(t)

\* C27, the steps: a cancelled call that stops waiting for a channel that is
\* not closed returns the ctx error, and the step changes no entry.
C27_CancelSteps ==
    \A t \in Tasks :
        (/\ task[t].pc = "wait" /\ task[t].cancelled
         /\ task[t].entriesData[task[t].wi].DoneLoading \notin closed
         /\ task'[t] # task[t]) =>
            /\ task'[t].pc = "done"
            /\ task'[t].err = ErrCanceled
            /\ entries' = entries /\ closed' = closed

InLoadOrCreate(t) == task[t].pc \in {"load", "store", "prepW"}

\* LoadOrCreateEntry of task t returns with this step
LoadOrCreateReturns(t) == InLoadOrCreate(t) /\ task'[t].ki = task[t].ki + 1

\* the channels of all setters handed out so far and of all entries
ChannelsInUse ==
    {entries[k].DoneLoading : k \in Keys}
      \cup {task[p[1]].entrySetters[p[2]].ch :
               p \in {q \in Slots : q[2] <= Len(task[q[1]].entrySetters)}}

\* C28, the steps of LoadOrCreateEntry(k): a step that does not return
\* changes no entry.  The step that returns decides by the entry as it is at
\* that step, under the lock or in LoadOrStore: with no entry, or one that is
\* Deleted or Error, the entry becomes Loading, type None, with a channel no
\* entry or setter has held, and the caller gets the setter of this channel
\* and no data (loaded = false); with an entry that Exists or is Loading,
\* nothing changes and the caller gets no setter but a copy of the entry.
C28_LoadOrCreateSteps ==
    \A t \in Tasks :
        LET r == task[t]
            k == r.keys[r.ki]
            e == entries[k]
            c == entries'[k].DoneLoading
        IN  /\ (InLoadOrCreate(t) /\ ~LoadOrCreateReturns(t) /\ task'[t] # r) =>
                   entries' = entries
            /\ LoadOrCreateReturns(t) =>
                   IF ~e.present \/ e.State \in {CacheEntryStateDeleted, CacheEntryStateError}
                   THEN /\ entries' = [entries EXCEPT ![k] =
                               cacheEntry(CacheEntryStateLoading, LedisTypeNone, c)]
                        /\ c # NilChan /\ c \notin ChannelsInUse /\ c \notin closed
                        /\ task'[t].entrySetters =
                               Append(r.entrySetters, CacheEntrySetter(k, c))
                        /\ r.ki < Len(r.keys) => task'[t].typesInfo = r.typesInfo
                        /\ task'[t].entriesData = r.entriesData
                   ELSE /\ entries' = entries
                        /\ task'[t].entrySetters = r.entrySetters
                        /\ IF e.State = CacheEntryStateExists
                           THEN /\ task'[t].typesInfo =
                                       Append(r.typesInfo, TypeInfo(k, e.Type))
                                /\ task'[t].entriesData = r.entriesData
                           ELSE /\ e.State = CacheEntryStateLoading
                                /\ task'[t].entriesData =
                                       Append(r.entriesData, CacheEntryData(k, e))

\* C28, the states: no key has two setters that are not set.
C28_OneSetter == \A k \in Keys : Cardinality(Uncompleted(k)) <= 1

\* C28: the state transitions of LoadOrCreateEntry, and with the check under
\* the write lock no two callers get a setter for the same episode.
C28_LoadOrCreateTransitions == []C28_OneSetter /\ [][C28_LoadOrCreateSteps]_vars

\* x was set to Deleted, a second caller has moved its entry to Loading with
\* a new channel and holds the setter, a third caller holds a copy of the
\* Loading entry
C28_Witness ==
    \E t, u \in Tasks :
        /\ t # u
        /\ entries["x"] = cacheEntry(CacheEntryStateLoading, LedisTypeNone, 2)
        /\ task[t].entrySetters = <<CacheEntrySetter("x", 2)>>
        /\ task[u].entriesData = <<CacheEntryData("x", entries["x"])>>

(***************************************************************************)
(* Properties of the cache entries, checked under SpecCache                *)
(***************************************************************************)

\* C29: every entry in the map is Loading exactly if it holds a DoneLoading
\* channel, and has a type other than None only if it Exists.
C29_EntryInvariant ==
    \A k \in Keys :
        entries[k].present =>
            /\ entries[k].State = CacheEntryStateLoading <=>
                   entries[k].DoneLoading # NilChan
            /\ entries[k].Type # LedisTypeNone =>
                   entries[k].State = CacheEntryStateExists

\* x is Loading for the second time, with the second channel, and y Exists
\* with a type that TrySetEntry has written
C29_Witness ==
    /\ entries["x"] = cacheEntry(CacheEntryStateLoading, LedisTypeNone, 2)
    /\ entries["y"] = cacheEntry(CacheEntryStateExists, LedisTypeList, NilChan)

\* the slots that hold a setter
SetterSlots == {p \in Slots : p[2] <= Len(task[p[1]].entrySetters)}

SetterAt(p) == task[p[1]].entrySetters[p[2]]

\* task t is about to make the Set call at the head of its calls on setter p
Setting(t, p) ==
    /\ p[1] = t /\ p \in SetterSlots
    /\ task[t].sets # <<>> /\ Head(task[t].sets).i = p[2]

\* C30, the states: every channel belongs to one setter; a closed channel is
\* that of a setter that is set, and no Loading entry holds it; a setter
\* that is set and whose channel is not closed yet is at the close that ends
\* its Set call.
C30_SignalStates ==
    /\ \A p, q \in SetterSlots : SetterAt(p).ch = SetterAt(q).ch => p = q
    /\ \A c \in closed : \E p \in SetterSlots : SetterAt(p).ch = c /\ SetterAt(p).set
    /\ \A k \in Keys : entries[k].DoneLoading # NilChan => entries[k].DoneLoading \notin closed
    /\ \A p \in SetterSlots :
           (SetterAt(p).set /\ SetterAt(p).ch \notin closed) =>
               task[p[1]].pc = "close" /\ Setting(p[1], p)

\* C30, the steps: a Loading entry changes only by the Set call on the setter
\* that holds its channel; a channel is closed only by the Set call of its
\* setter, after the entry was written, and only if it is not closed; a Set
\* call on a setter that is set panics and changes neither entry nor channel.
C30_SignalSteps ==
    /\ \A k \in Keys :
           (entries[k].State = CacheEntryStateLoading /\ entries'[k] # entries[k]) =>
               \E p \in SetterSlots :
                   /\ task[p[1]].pc = "set" /\ Setting(p[1], p)
                   /\ SetterAt(p).Key = k
                   /\ SetterAt(p).ch = entries[k].DoneLoading
                   /\ ~SetterAt(p).set
                   /\ entries'[k].State # CacheEntryStateLoading
    /\ closed' # closed =>
           \E p \in SetterSlots :
               /\ task[p[1]].pc = "close" /\ Setting(p[1], p)
               /\ SetterAt(p).set
               /\ SetterAt(p).ch \notin closed
               /\ closed' = closed \cup {SetterAt(p).ch}
    /\ \A p \in SetterSlots :
           (/\ task[p[1]].pc = "set" /\ Setting(p[1], p)
            /\ SetterAt(p).set
            /\ task'[p[1]] # task[p[1]]) =>
               /\ task'[p[1]].pc = "panicked"
               /\ entries' = entries /\ closed' = closed

\* C30: the channel of a Loading entry is closed once, by the Set call of the
\* setter of that entry and after the entry has left Loading; nothing else
\* takes an entry out of Loading, and a second Set on a setter panics.
C30_SignalledOnce == []C30_SignalStates /\ [][C30_SignalSteps]_vars

\* the channel of a setter was closed by its Set call, and a second Set call
\* on the setter has panicked
C30_Witness ==
    \E p \in SetterSlots :
        /\ task[p[1]].pc = "panicked" /\ Setting(p[1], p)
        /\ SetterAt(p).set /\ SetterAt(p).ch \in closed

\* task t makes its TrySetEntry call with this step
TrySetEntryReturns(t) == task[t].pc = "idle" /\ task'[t].pc = "done"

\* C31: TrySetEntry(k, state, keyType) on a Loading entry returns false and
\* changes nothing, neither the entry nor a channel; on a key with no entry
\* or with an entry that Exists, is Deleted or Error it returns true and
\* the entry of k then has the state passed, the type passed if the state is
\* Exists and None otherwise, and no channel; no other entry changes.
C31_TrySetEntrySteps ==
    \A t \in Tasks :
        TrySetEntryReturns(t) =>
            LET k == task'[t].keys[1]
                call == task'[t].trySet
            IN  /\ call.state \in {CacheEntryStateExists, CacheEntryStateDeleted,
                                   CacheEntryStateError}
                /\ chans' = chans /\ closed' = closed
                /\ \A o \in Keys \ {k} : entries'[o] = entries[o]
                /\ IF entries[k].State = CacheEntryStateLoading
                   THEN ~call.applied /\ entries'[k] = entries[k]
                   ELSE /\ call.applied
                        /\ entries'[k] =
                               cacheEntry(call.state,
                                          IF call.state = CacheEntryStateExists
                                          THEN call.keyType ELSE LedisTypeNone,
                                          NilChan)

C31_TrySetEntry == [][C31_TrySetEntrySteps]_vars

\* a TrySetEntry call on x has returned false: another task had moved x from
\* Deleted or Error to Loading for the second time and still holds the setter
C31_Witness ==
    \E t, u \in Tasks :
        /\ task[t].pc = "done" /\ task[t].keys = <<"x">>
        /\ task[t].trySet.state = CacheEntryStateExists /\ ~task[t].trySet.applied
        /\ entries["x"] = cacheEntry(CacheEntryStateLoading, LedisTypeNone, 2)
        /\ task[u].entrySetters = <<CacheEntrySetter("x", 2)>>

(***************************************************************************)
(* Further properties of the SubPool, checked under SpecPool               *)
(***************************************************************************)

\* C32 (as stated): with MaxActive = 0 of the SubPool no call of Get or
\* GetContext is ever held up at the semaphore: a call that has come to
\* semaphore.Acquire can always go on to the primary pool.
C32_Original ==
    subMaxActive = 0 =>
        \A u \in Users : user[u].pc = "Acquire" => ENABLED Acquire(u)

\* the calls into the SubPool that are past semaphore.Acquire and whose
\* connection, if they got one, is not closed yet
PastAcquire == {u \in Users : user[u].pc \in {"PoolGet", "using"}}

\* C33 (as stated): GetContext goes on to the primary pool only with a permit
\* of the semaphore, so with MaxActive > 0 every call that is past Acquire
\* holds one of the permits taken; a call whose ctx was cancelled before it
\* got a permit has returned.
C33_Original ==
    subMaxActive # 0 => Cardinality(PastAcquire) <= semCur

\* C36 (as stated): with MaxActive > 0 the permits taken are exactly those of
\* the calls past Acquire and of the connections handed out and not closed
\* yet; a GetContext whose Pool.GetContext failed has given its permit back.
C36_Original ==
    (subMaxActive # 0 /\ subState = subPoolStateInitialised) =>
        semCur = Cardinality(PastAcquire)

(***************************************************************************)
(* Further properties of the LedisConn, checked under SpecConn             *)
(***************************************************************************)

TimeoutOps == {"ReceiveWithTimeout", "DoWithTimeout"}

\* C34 (as the code behaves): on an open connection whose wire is no
\* redis.ConnWithTimeout, ReceiveWithTimeout and DoWithTimeout return
\* ErrTimeoutNotSupported and change nothing: l.err stays unset or as it was,
\* the wire stays open, the slots, the output buffer and the replies owed
\* stay, nothing is sent and no slot is taken.
C34_TimeoutNotSupportedSteps ==
    (conn = "open" /\ ~timed /\ last'.op \in TimeoutOps /\ last' # last) =>
        /\ last' = Returned(last'.op, ErrTimeoutNotSupported)
        /\ UNCHANGED <<conn, lerr, slots, wbuf, owed, nsent, consumed, sendLog>>

C34_TimeoutNotSupported == [][C34_TimeoutNotSupportedSteps]_vars

\* DoWithTimeout has returned ErrTimeoutNotSupported with a slot pending: the
\* connection is open, no error is stored and the slot is still queued
C34_Witness ==
    /\ last = Returned("DoWithTimeout", ErrTimeoutNotSupported)
    /\ conn = "open" /\ lerr = NoErr
    /\ slots # <<>>

\* C34 (as stated): when ReceiveWithTimeout or DoWithTimeout has failed with
\* ErrTimeoutNotSupported the error is stored in l.err and the wire is closed.
C34_Original ==
    (last.op \in TimeoutOps /\ last.ret = ErrTimeoutNotSupported) =>
        lerr = ErrTimeoutNotSupported /\ conn = "nil"
\* the modifiers of a RESTORE call: what follows key, ttl and serialized value
RestoreModifiers == SubSeq(rw.call.args, 4, Len(rw.call.args))

\* modifier lists of the documented syntax
RestoreModifierLists ==
    {<<>>, <<ArgString("REPLACE")>>, <<ArgString("ABSTTL")>>,
     <<ArgString("replace"), ArgString("absttl")>>,
     <<ArgString("IDLETIME"), ArgInt(10), ArgString("FREQ"), ArgInt(2)>>}

RestoreHasABSTTL ==
    \E i \in 1..Len(RestoreModifiers) :
        EqualFoldEither(RestoreModifiers[i], "ABSTTL")

\* a RESTORE call of the documented form: key, a numeric ttl, the serialized
\* value and a documented modifier list
RestoreCalled ==
    /\ rw.pc # "idle"
    /\ ToUpper(rw.call.name) = "RESTORE"
    /\ Len(rw.call.args) >= 3
    /\ ConvertToInt(rw.call.args[2]).err = NoErr
    /\ rw.call.args[3] = ArgString("v")
    /\ RestoreModifiers \in RestoreModifierLists

\* C35 (as stated): RESTORE key ttl value with the modifiers REPLACE, ABSTTL,
\* IDLETIME n and FREQ n is accepted; with ABSTTL it emits RESTORE key 0 value
\* and EXPIREAT key ttl in a slot of two replies, otherwise RESTORE key ttl
\* value in a slot of one reply; the reduced reply is the reply of RESTORE.
C35_Original ==
    RestoreCalled =>
        /\ rw.pc \in {"sent", "done"}
        /\ IF RestoreHasABSTTL
           THEN /\ rw.plan.cmds =
                      <<Cmd("RESTORE", <<rw.call.args[1], ArgInt(0), rw.call.args[3]>>),
                        Cmd("EXPIREAT", <<rw.call.args[1],
                                          ArgInt64(ConvertToInt(rw.call.args[2]).n)>>)>>
                /\ rw.plan.RepliesCount = 2
           ELSE /\ rw.plan.cmds = <<Cmd("RESTORE", SubSeq(rw.call.args, 1, 3))>>
                /\ rw.plan.RepliesCount = 1
        /\ rw.pc = "done" => rw.reduced = [err |-> NoErr, val |-> rw.replies[1]]

\* the record the backend holds for one key: whether it exists, its value and
\* its time to live in seconds (ArgInt(0): none)
ExistingRecord == [exists |-> TRUE, value |-> ArgString("old"), ttl |-> ArgInt(100)]

\* what a backend command does to the record of its key: SETNX writes a
\* missing key only, EXPIRE sets the time to live of an existing key, SET and
\* SETEX overwrite
BackendApply(rec, cmd) ==
    CASE cmd.name = "SETNX" ->
            IF rec.exists THEN rec
            ELSE [exists |-> TRUE, value |-> cmd.args[2], ttl |-> ArgInt(0)]
      [] cmd.name = "EXPIRE" ->
            IF rec.exists THEN [rec EXCEPT !.ttl = cmd.args[2]] ELSE rec
      [] cmd.name = "SETEX" ->
            [exists |-> TRUE, value |-> cmd.args[3], ttl |-> cmd.args[2]]
      [] cmd.name = "SET" ->
            [exists |-> TRUE, value |-> cmd.args[2], ttl |-> ArgInt(0)]
      [] OTHER -> rec

RECURSIVE BackendRun(_, _)
BackendRun(rec, cmds) ==
    IF cmds = <<>> THEN rec
    ELSE BackendRun(BackendApply(rec, Head(cmds)), Tail(cmds))

\* C37 (as stated): SET key value NX with EX or PX, run against a backend in
\* which the key exists, leaves the value and the time to live of the key as
\* they were, and reduces to nil when SETNX answers 0.
C37_Original ==
    (SetRewritten /\ rw.pc \in {"sent", "done"} /\ HasModifier("NX")
       /\ (HasModifier("EX") \/ HasModifier("PX"))) =>
        /\ BackendRun(ExistingRecord, rw.plan.cmds) = ExistingRecord
        /\ (rw.pc = "done" /\ rw.replies[1] = RInt(0))
               => rw.reduced = [err |-> NoErr, val |-> RNil]

\* task t is past the loop over its keys and owns no key: every key was a hit
\* or is loading in another call, or the batch was empty
OwnsNoKey(t) ==
    /\ task[t].pc \in {"wait", "done"}
    /\ task[t].entrySetters = <<>>

\* C38 (as stated): a ResolveAppend that owns no key takes no backend
\* connection and sends no probe.
C38_Original ==
    \A t \in Tasks : OwnsNoKey(t) => ~task[t].dialed /\ ~task[t].probed

\* both opposed calls have returned or panicked, no probe round failed and
\* no ctx was cancelled
OpposedCallsEnded ==
    \A t \in {"t1", "t2"} :
        /\ task[t].keys = OpposedKeys(t)
        /\ task[t].pc \in {"done", "panicked"}
        /\ ~task[t].cancelled
        /\ task[t].err # ErrWire

\* C39 (as stated): two concurrent calls resolving [x, y] and [y, x] both
\* return without error with the type of x and the type of y, when probes
\* answer and connections can be acquired.
C39_Original ==
    OpposedCallsEnded =>
        \A t \in {"t1", "t2"} :
            /\ Succeeded(t)
            /\ \A k \in Keys : \E i \in 1..Len(task[t].ret) :
                   task[t].ret[i] = TypeInfo(k, ResolvedType(k))

\* task t is inside LoadOrCreateEntry(k)
LoadsKey(t, k) ==
    /\ task[t].pc \in {"load", "store", "prepW"}
    /\ CurKey(t) = k

\* the step leaves task t with one more TypeInfo, that of k with type T, and
\* with no new setter and no new entry to wait for
HitFor(t, k, T) ==
    /\ Len(task'[t].typesInfo) > Len(task[t].typesInfo)
    /\ SubSeq(task'[t].typesInfo, 1, Len(task[t].typesInfo) + 1) =
           Append(task[t].typesInfo, TypeInfo(k, T))
    /\ task'[t].entrySetters = task[t].entrySetters
    /\ task'[t].entriesData = task[t].entriesData
    /\ task'[t].probed = task[t].probed

C40_ExistsSteps ==
    \A k \in Keys :
        entries[k].State = CacheEntryStateExists =>
            /\ \/ entries'[k] = entries[k]
               \/ \E t \in Tasks : /\ TrySetEntryReturns(t)
                                    /\ task'[t].keys = <<k>>
                                    /\ task'[t].trySet.applied
            /\ \A t \in Tasks :
                   (LoadsKey(t, k) /\ task'[t] # task[t]) => HitFor(t, k, entries[k].Type)

\* a call that found all its keys in the cache has sent no probe command
C40_HitsUnprobed ==
    \A t \in Tasks :
        (task[t].pc = "done" /\ task[t].entrySetters = <<>>) => ~task[t].probed

\* C40: while the entry of k is Exists with type T, no step of ResolveAppend
\* changes or removes it and only a TrySetEntry call on k that returns true
\* replaces it; every LoadOrCreateEntry(k) of a ResolveAppend is a hit that
\* appends (k, T) from the cache and creates no setter, and a call made of
\* hits sends no probe command.
C40_ExistsIsStable == []C40_HitsUnprobed /\ [][C40_ExistsSteps]_vars

\* a later call for x has returned List from the cache where the backend has
\* no x: TrySetEntry had published Exists(List)
C40_Witness ==
    \E t \in Tasks :
        /\ task[t].late /\ task[t].pc = "done" /\ task[t].err = NoErr
        /\ task[t].keys = <<"x">>
        /\ task[t].ret = <<TypeInfo("x", LedisTypeList)>>
        /\ task[t].entrySetters = <<>> /\ task[t].entriesData = <<>>
        /\ ~task[t].probed
        /\ entries["x"].State = CacheEntryStateExists
        /\ backend["x"] = {}

====
